---- MODULE Spec2Model ----
(***************************************************************************)
(* The note/tracker reconciler of obsidian-jira-sync (GithubSyncPlugin).   *)
(*                                                                         *)
(* A note text is kept as the sequence of its lines (content.split("\n")), *)
(* each line a sequence of one-character strings, so that the regular      *)
(* expressions of the note parser are computed character by character.     *)
(* A text of n lines is the string of its lines joined by "\n"; the two    *)
(* forms are converted by Join and Split where the code works on offsets.  *)
(*                                                                         *)
(* The asynchronous handlers are tasks: a task's pc is the await it is     *)
(* suspended at, and one action runs a task from one file/repository       *)
(* await to the next.                                                      *)
(***************************************************************************)
EXTENDS Integers, Sequences, FiniteSets, TLC

VARIABLES
  path,          \* file.path of the note of this run
  vault,         \* the note's text in the vault (app.vault.read / modify)
  noteCache,     \* GithubSyncPlugin.noteCache: path -> last seen text
  issueCache,    \* IssueCache.state
  remoteIssues,  \* the issues the repository holds
  remoteMilestones,
  remoteProjects,
  tasks,         \* the handler invocations, running and finished
  autoSync,      \* settings.autoSync
  accessToken,   \* settings.accessToken is set
  scenario,      \* which user edits this run draws from
  edits          \* number of user saves so far

vars == <<path, vault, noteCache, issueCache, remoteIssues, remoteMilestones,
          remoteProjects, tasks, autoSync, accessToken, scenario, edits>>

-----------------------------------------------------------------------------
(* Bounds *)

MaxEdits == 2
MaxTasks == 6
\* the invocations of a run that is followed until nothing is in flight
MaxQuiesceTasks == 9

-----------------------------------------------------------------------------
(* Characters and strings *)

NL == "\n"
UNDEF == <<"undefined">>                \* JS undefined, where a string may stand
NUM == "num"                            \* tag of a YAML number: <<NUM, "7">> is 7

Digits == {"0", "1", "2", "3", "4", "5", "6", "7", "8", "9"}
Letters == {"a", "b", "c", "d", "e", "f", "g", "h", "i", "j", "k", "l", "m",
            "n", "o", "p", "q", "r", "s", "t", "u", "v", "w", "x", "y", "z",
            "A", "B", "C", "D", "E", "F", "G", "H", "I", "J", "K", "L", "M",
            "N", "O", "P", "Q", "R", "S", "T", "U", "V", "W", "X", "Y", "Z"}

\* \s and \w of the regular expressions
IsWs(c) == c \in {" ", "\t", "\n"}
IsWord(c) == c \in Letters \cup Digits \cup {"_"}

PROPERTY_ID == <<"m", "i", "s", "s", "i", "o", "n", ".", "i", "d">>
PROPERTY_NAME == <<"m", "i", "s", "s", "i", "o", "n", ".", "t", "i", "t", "l", "e">>
PROPERTY_TYPE == <<"m", "i", "s", "s", "i", "o", "n", ".", "t", "y", "p", "e">>
PROPERTY_REPO == <<"m", "i", "s", "s", "i", "o", "n", ".", "r", "e", "p", "o">>
REPO_PLACEHOLDER == <<"o", "r", "g", "/", "r", "e", "p", "o">>
TypeMilestone == <<"m", "i", "l", "e", "s", "t", "o", "n", "e">>
TypeProject == <<"p", "r", "o", "j", "e", "c", "t">>
SECTION_HEADING_ISSUES == <<"I", "s", "s", "u", "e", "s">>
MdExt == <<".", "m", "d">>
Dashes == <<"-", "-", "-">>

IsNum(v) == Len(v) >= 1 /\ v[1] = NUM
\* `${v}`: the string a value is interpolated as
Str(v) == IF IsNum(v) THEN Tail(v)
          ELSE IF v = UNDEF THEN <<"u", "n", "d", "e", "f", "i", "n", "e", "d">>
          ELSE v
\* if (v): undefined, "" and 0 are falsy
Truthy(v) == v # UNDEF /\ v # <<>> /\ v # <<NUM, "0">>
\* a == b between the strings and numbers of the model
LooseEq(a, b) == IF a = UNDEF \/ b = UNDEF THEN a = b ELSE Str(a) = Str(b)

Drop(s, n) == SubSeq(s, n + 1, Len(s))          \* s.slice(n)
Take(s, n) == SubSeq(s, 1, n)                   \* s.slice(0, n)

StartsWith(s, p) == Len(s) >= Len(p) /\ Take(s, Len(p)) = p
EndsWith(s, p) == Len(s) >= Len(p) /\ Drop(s, Len(s) - Len(p)) = p

\* s.indexOf(p, from): 0-based, -1 when absent
RECURSIVE IndexOf(_, _, _)
IndexOf(s, p, from) ==
  IF from + Len(p) > Len(s) THEN -1
  ELSE IF SubSeq(s, from + 1, from + Len(p)) = p THEN from
  ELSE IndexOf(s, p, from + 1)

RECURSIVE LTrim(_)
LTrim(s) == IF s # <<>> /\ IsWs(Head(s)) THEN LTrim(Tail(s)) ELSE s
RECURSIVE RTrim(_)
RTrim(s) == IF s # <<>> /\ IsWs(s[Len(s)]) THEN RTrim(Take(s, Len(s) - 1)) ELSE s
Trim(s) == RTrim(LTrim(s))                      \* s.trim()

\* lines.join("\n")
RECURSIVE Join(_)
Join(ls) == IF ls = <<>> THEN <<>>
            ELSE IF Len(ls) = 1 THEN ls[1]
            ELSE ls[1] \o <<NL>> \o Join(Tail(ls))

\* s.split("\n")
RECURSIVE Split(_)
Split(s) == LET i == IndexOf(s, <<NL>>, 0)
            IN IF i = -1 THEN <<s>> ELSE <<Take(s, i)>> \o Split(Drop(s, i + 1))

\* /^#+ /: one or more '#', then a space
RECURSIVE HashRun(_, _)
HashRun(l, n) == IF n < Len(l) /\ l[n + 1] = "#" THEN HashRun(l, n + 1) ELSE n
IsHeading(l) == LET n == HashRun(l, 0) IN n >= 1 /\ Len(l) > n /\ l[n + 1] = " "
\* /^#+ heading$/
IsHeadingOf(l, heading) ==
  LET n == HashRun(l, 0) IN n >= 1 /\ Drop(l, n) = <<" ">> \o heading

\* the first line at or after line from that is a heading; 0 when none
RECURSIVE FirstHeading(_, _)
FirstHeading(ls, from) ==
  IF from > Len(ls) THEN 0
  ELSE IF IsHeading(ls[from]) THEN from
  ELSE FirstHeading(ls, from + 1)

RECURSIVE FirstHeadingOf(_, _, _)
FirstHeadingOf(ls, heading, from) ==
  IF from > Len(ls) THEN 0
  ELSE IF IsHeadingOf(ls[from], heading) THEN from
  ELSE FirstHeadingOf(ls, heading, from + 1)

-----------------------------------------------------------------------------
(* Front matter (the front-matter and YAML libraries the note calls) *)

\* line of the closing "---" of a leading front-matter block; 0 without one
RECURSIVE FirstDashes(_, _)
FirstDashes(ls, from) ==
  IF from > Len(ls) THEN 0
  ELSE IF ls[from] = Dashes THEN from
  ELSE FirstDashes(ls, from + 1)
FrontMatterClose(text) == IF text[1] = Dashes THEN FirstDashes(text, 2) ELSE 0

\* a YAML scalar as written in the text -> its value
YamlValue(raw) ==
  IF Len(raw) >= 2 /\ raw[1] = "\"" /\ raw[Len(raw)] = "\""
    THEN SubSeq(raw, 2, Len(raw) - 1)
  ELSE IF raw # <<>> /\ \A i \in 1..Len(raw) : raw[i] \in Digits
    THEN <<NUM>> \o raw
  ELSE IF raw = <<>> THEN UNDEF
  ELSE raw

\* a value -> the YAML scalar stringifyYaml writes for it
YamlScalar(v) ==
  IF IsNum(v) THEN Tail(v)
  ELSE IF v # <<>> /\ \A i \in 1..Len(v) : v[i] \in Digits
    THEN <<"\"">> \o v \o <<"\"">>
  ELSE v

\* the "key: value" lines of a block, as an ordered list of [k, v]
RECURSIVE YamlLoad(_)
YamlLoad(ls) ==
  IF ls = <<>> THEN <<>>
  ELSE LET l == ls[1]
           i == IndexOf(l, <<":">>, 0)
           rest == YamlLoad(Tail(ls))
       IN IF i <= 0 THEN rest
          ELSE <<[k |-> Take(l, i), v |-> YamlValue(Trim(Drop(l, i + 1)))]>> \o rest

\* stringifyYaml(props) as lines; the string ends with a newline, which is
\* the empty last line
YamlDump(props) ==
  IF props = <<>> THEN << <<"{", "}">>, <<>> >>
  ELSE [i \in 1..Len(props) + 1 |->
          IF i <= Len(props)
            THEN props[i].k \o <<":", " ">> \o YamlScalar(props[i].v)
            ELSE <<>>]

\* frontMatter(c).attributes
Properties(text) ==
  LET c == FrontMatterClose(text)
  IN IF c = 0 THEN <<>> ELSE YamlLoad(SubSeq(text, 2, c - 1))

\* props[name]
Prop(props, name) ==
  IF \E i \in 1..Len(props) : props[i].k = name
    THEN props[CHOOSE i \in 1..Len(props) : props[i].k = name].v
    ELSE UNDEF

Property(text, name) == Prop(Properties(text), name)

\* lodash merge({}, oldProps, newProps): undefined source values are skipped
RECURSIVE Merge(_, _)
Merge(old, new) ==
  IF new = <<>> THEN old
  ELSE LET e == new[1]
           merged ==
             IF e.v = UNDEF THEN old
             ELSE IF \E i \in 1..Len(old) : old[i].k = e.k
               THEN [i \in 1..Len(old) |-> IF old[i].k = e.k THEN e ELSE old[i]]
             ELSE Append(old, e)
       IN Merge(merged, Tail(new))

-----------------------------------------------------------------------------
(* AbstractNote: reading *)

\* offset in the joined text at which line n begins
RECURSIVE LineStart(_, _)
LineStart(text, n) ==
  IF n <= 1 THEN 0 ELSE LineStart(text, n - 1) + Len(text[n - 1]) + 1

IsBlank(l) == \A i \in 1..Len(l) : IsWs(l[i])

\* the front-matter match runs over the blank lines after the closing line
RECURSIVE BlankRunEnd(_, _)
BlankRunEnd(text, e) ==
  IF e < Len(text) /\ IsBlank(text[e + 1]) THEN BlankRunEnd(text, e + 1) ELSE e

\* frontMatter(c).bodyBegin (computeLocation of the library)
FrontMatterBodyBegin(text) ==
  LET c == FrontMatterClose(text)
      e == BlankRunEnd(text, c)
  IN IF c = 0 THEN 1 ELSE IF e < Len(text) THEN e + 1 ELSE Len(text)

\* util.nthIndex(str, substr, n), the loop from i
RECURSIVE NthIndexFrom(_, _, _, _)
NthIndexFrom(str, substr, n, i) ==
  IF n = 0 THEN i
  ELSE IF ~(i < Len(str)) THEN i + 1
  ELSE LET j == IndexOf(str, substr, i + 1)
       IN IF j < 0 THEN j ELSE NthIndexFrom(str, substr, n - 1, j)
nthIndex(str, substr, n) == NthIndexFrom(str, substr, n, -1)

\* getRepo(): [ok, org, repo]
NoRepo == [ok |-> FALSE, org |-> <<>>, repo |-> <<>>]
\* getRepo without its rule for the placeholder names
ParseRepoAnyName(repoProp) ==
  LET s == Str(repoProp)
      i == IndexOf(s, <<"/">>, 0)
  IN IF ~Truthy(repoProp) \/ i <= 0 \/ Drop(s, i + 1) = <<>> THEN NoRepo
     ELSE [ok |-> TRUE, org |-> Take(s, i), repo |-> Drop(s, i + 1)]
ParseRepo(repoProp) ==
  LET s == Str(repoProp)
      i == IndexOf(s, <<"/">>, 0)
      org == Take(s, i)
      repo == Drop(s, i + 1)
  IN IF ~Truthy(repoProp) THEN NoRepo
     ELSE IF i <= 0 \/ repo = <<>> THEN NoRepo
     ELSE IF org = <<"o", "r", "g">> /\ repo = <<"r", "e", "p", "o">> THEN NoRepo
     ELSE [ok |-> TRUE, org |-> org, repo |-> repo]
getRepo(text) == ParseRepo(Property(text, PROPERTY_REPO))

getTrackedType(text) == Property(text, PROPERTY_TYPE)
getTrackedId(text) == Property(text, PROPERTY_ID)

\* filename.replace(".md", "")
StripMd(name) ==
  LET i == IndexOf(name, MdExt, 0)
  IN IF i = -1 THEN name ELSE Take(name, i) \o Drop(name, i + 3)

getTrackedName(text, filename) ==
  LET t == Property(text, PROPERTY_NAME)
  IN IF Truthy(t) THEN t ELSE StripMd(filename)

\* getHeadSectionIndexes(content): end is -1 when there is no heading
getHeadSectionIndexes(text) ==
  LET flat == Join(text)
      frontMatterEnd == nthIndex(flat, <<NL>>, FrontMatterBodyBegin(text) - 1) + 1
      h == FirstHeading(text, 1)
  IN [start |-> IF frontMatterEnd = -1 THEN 0 ELSE frontMatterEnd,
      end |-> IF h = 0 THEN -1 ELSE LineStart(text, h)]

getHeadSection(text) ==
  LET ix == getHeadSectionIndexes(text)
      flat == Join(text)
      end == IF ix.end = -1 THEN Len(flat) ELSE ix.end
  IN IF end <= ix.start THEN <<>> ELSE Trim(SubSeq(flat, ix.start + 1, end))

\* getSection(heading): the trimmed section, or UNDEF for null
getSection(text, heading) ==
  LET h == FirstHeadingOf(text, heading, 1)
      e == FirstHeading(text, h + 1)
      last == IF e = 0 THEN Len(text) ELSE e - 1
  IN IF h = 0 THEN UNDEF ELSE Trim(Join(SubSeq(text, h + 1, last)))

NoMilestone == [present |-> FALSE, id |-> UNDEF, title |-> UNDEF, description |-> UNDEF]

getTrackedMilestone(text, filename) ==
  IF getTrackedType(text) # TypeMilestone THEN NoMilestone
  ELSE IF ~Truthy(getTrackedId(text)) THEN NoMilestone
  ELSE [present |-> TRUE, id |-> getTrackedId(text),
        title |-> getTrackedName(text, filename),
        description |-> getHeadSection(text)]

NoProject == [present |-> FALSE, id |-> UNDEF, title |-> UNDEF, description |-> UNDEF]

getTrackedProject(text, filename) ==
  IF getTrackedType(text) # TypeProject THEN NoProject
  ELSE [present |-> TRUE, id |-> getTrackedId(text),
        title |-> getTrackedName(text, filename),
        description |-> getHeadSection(text)]

-----------------------------------------------------------------------------
(* AbstractNote.getIssues *)

\* /^- \S+/.test(line)
IsIssueLine(l) == Len(l) >= 3 /\ l[1] = "-" /\ l[2] = " " /\ ~IsWs(l[3])

\* /\((.*)\)$/.exec(line): the text between the first "(" and a final ")"
ParenId(l) ==
  IF l # <<>> /\ l[Len(l)] = ")" /\ \E p \in 1..Len(l) - 1 : l[p] = "("
    THEN LET p == CHOOSE q \in 1..Len(l) - 1 :
                    l[q] = "(" /\ \A r \in 1..q - 1 : l[r] # "("
         IN SubSeq(l, p + 1, Len(l) - 1)
    ELSE UNDEF

\* line.replace(/\s*\(\w+\)$/, "")
StripIdSuffix(l) ==
  IF l # <<>> /\ l[Len(l)] = ")"
     /\ \E q \in 1..Len(l) - 2 :
          l[q] = "(" /\ \A r \in q + 1..Len(l) - 1 : IsWord(l[r])
    THEN LET q == CHOOSE x \in 1..Len(l) - 2 :
                    l[x] = "(" /\ \A r \in x + 1..Len(l) - 1 : IsWord(l[r])
         IN RTrim(Take(l, q - 1))
    ELSE l

\* /^- (?:\[(x| )\]\s*)?(.*)\s*$/.exec(line): [status, title]
HasCheckbox(l) ==
  Len(l) >= 5 /\ l[3] = "[" /\ l[4] \in {"x", " "} /\ l[5] = "]"
StatusTitle(l) ==
  IF ~StartsWith(l, <<"-", " ">>) THEN [status |-> UNDEF, title |-> UNDEF]
  ELSE IF HasCheckbox(l) THEN [status |-> <<l[4]>>, title |-> LTrim(Drop(l, 5))]
  ELSE [status |-> UNDEF, title |-> Drop(l, 2)]

\* new Issue(id, title, { status }) of an issue line
IssueOfLine(line) ==
  LET id == ParenId(line)
      l == IF Truthy(id) THEN StripIdSuffix(line) ELSE line
      st == StatusTitle(l)
  IN [id |-> id, title |-> st.title, description |-> UNDEF,
      status |-> IF st.status = <<"x">> THEN "closed" ELSE "open",
      statusReason |-> "undefined", milestoneId |-> UNDEF, projectId |-> UNDEF]

\* /^\s+- \S.+/: an indented bullet with a text of two characters or more
LeadWs(l) == Len(l) - Len(LTrim(l))
IsDescLine(l) ==
  LET n == LeadWs(l)
  IN n >= 1 /\ Len(l) >= n + 4 /\ l[n + 1] = "-" /\ l[n + 2] = " "
     /\ ~IsWs(l[n + 3])
DescOf(l) == Drop(l, LeadWs(l) + 2)

SetLast(issues, d) ==
  [issues EXCEPT ![Len(issues)] = [@ EXCEPT !.description = d]]

\* lines.forEach(...) of getIssues
RECURSIVE ScanIssueLines(_, _)
ScanIssueLines(lines, issues) ==
  IF lines = <<>> THEN issues
  ELSE LET line == lines[1]
           next ==
             IF IsIssueLine(line) THEN Append(issues, IssueOfLine(line))
             ELSE IF issues # <<>> /\ IsDescLine(line)
               THEN SetLast(issues, DescOf(line))
             ELSE IF issues # <<>> /\ Truthy(issues[Len(issues)].description)
                     /\ (line = <<>> \/ IsWs(line[1]))
               THEN SetLast(issues,
                            issues[Len(issues)].description \o <<NL>> \o LTrim(line))
             ELSE issues
       IN ScanIssueLines(Tail(lines), next)

getIssues(text, filename) ==
  LET section == getSection(text, SECTION_HEADING_ISSUES)
      milestone == getTrackedMilestone(text, filename)
      project == getTrackedProject(text, filename)
      scanned == IF ~Truthy(section) THEN <<>>
                 ELSE ScanIssueLines(Split(section), <<>>)
  IN [i \in 1..Len(scanned) |->
        [scanned[i] EXCEPT
           !.description = IF @ = UNDEF THEN UNDEF ELSE Trim(@),
           !.milestoneId = milestone.id,
           !.projectId = project.id]]

-----------------------------------------------------------------------------
(* AbstractNote: writing.  Each operator gives the text handed to write(),  *)
(* as a function of the text(s) the method read.                           *)

AllWs(s) == \A i \in 1..Len(s) : IsWs(s[i])

\* the pattern of setIdOnIssue, ^(- (?:\[(x| )\])?\s*TITLE)\s*$, on one line:
\* the length of group 1, or 0 when the line does not match.  from is the
\* offset behind "- " or behind the checkbox, k the whitespace skipped.
TitleAt(l, title, from, k) ==
  /\ from + k + Len(title) <= Len(l)
  /\ AllWs(SubSeq(l, from + 1, from + k))
  /\ SubSeq(l, from + k + 1, from + k + Len(title)) = title
  /\ AllWs(Drop(l, from + k + Len(title)))
RECURSIVE TitleEnd(_, _, _, _)
TitleEnd(l, title, from, k) ==
  IF k < 0 THEN 0
  ELSE IF TitleAt(l, title, from, k) THEN from + k + Len(title)
  ELSE TitleEnd(l, title, from, k - 1)
IdPatternEnd(l, title) ==
  IF title = UNDEF \/ ~StartsWith(l, <<"-", " ">>) THEN 0
  ELSE LET boxed == IF HasCheckbox(l) THEN TitleEnd(l, title, 5, Len(l) - 5) ELSE 0
       IN IF boxed # 0 THEN boxed ELSE TitleEnd(l, title, 2, Len(l) - 2)

RECURSIVE FirstIdLine(_, _, _)
FirstIdLine(text, title, from) ==
  IF from > Len(text) THEN 0
  ELSE IF IdPatternEnd(text[from], title) # 0 THEN from
  ELSE FirstIdLine(text, title, from + 1)

\* the replacement `$1 (${id})`
IdSuffix(id) == <<" ", "(">> \o Str(id) \o <<")">>

\* setIdOnIssue with the replacement "$1": the line is written back without
\* the id, what C6 must tell apart
setIdOnIssueWithoutId(text, title, id) ==
  [found |-> FirstIdLine(text, title, 1) # 0, text |-> text]

\* setIdOnIssue(title, id) through replaceLine: [found, text]
setIdOnIssue(text, title, id) ==
  LET index == FirstIdLine(text, title, 1)
  IN IF index = 0 THEN [found |-> FALSE, text |-> text]
     ELSE [found |-> TRUE,
           text |-> [text EXCEPT ![index] =
                       Take(@, IdPatternEnd(@, title)) \o IdSuffix(id)]]

\* setProperties(newProps): c1 is the text read for the properties, c2 the
\* one read for contentStart, c3 the one sliced
setProperties(c1, c2, c3, newProps) ==
  LET props == Merge(Properties(c1), newProps)
      newFrontMatter == Dashes \o <<NL>> \o Join(YamlDump(props)) \o <<NL>> \o Dashes
      contentStart == IndexOf(Join(c2), Dashes, 3) + 3
      content == Drop(Join(c3), contentStart)
  IN Split(newFrontMatter \o <<NL>> \o content)

\* setHeadSection(content)
setHeadSection(text, content) ==
  LET h == FirstHeading(text, 1)
  IN IF h = 0 THEN Split(content)
     ELSE Split(content \o Drop(Join(text), LineStart(text, h)))

-----------------------------------------------------------------------------
(* The diff engine *)

\* equality on id and title alone, what C11 must tell apart
IssueEqualsIdTitle(a, b) == a.id = b.id /\ a.title = b.title

IssueEquals(a, b) ==
  /\ a.id = b.id
  /\ a.title = b.title
  /\ a.description = b.description
  /\ a.status = b.status
  /\ a.statusReason = b.statusReason
  /\ a.milestoneId = b.milestoneId
  /\ a.projectId = b.projectId

EntityEquals(a, b) ==
  a.id = b.id /\ a.title = b.title /\ a.description = b.description

SelectIdLess(issues) == SelectSeq(issues, LAMBDA i : ~Truthy(i.id))

\* _.differenceBy with its arguments swapped: what C5 must tell apart
DifferenceByIdSwapped(before, after) ==
  SelectSeq(after, LAMBDA a : \A k \in 1..Len(before) : before[k].id # a.id)

\* _.differenceBy(before, after, "id")
DifferenceById(before, after) ==
  SelectSeq(before, LAMBDA b : \A k \in 1..Len(after) : after[k].id # b.id)

\* beforeIssues.find((b) => b.id == issue.id)
FindById(before, id) ==
  IF \E k \in 1..Len(before) : LooseEq(before[k].id, id)
    THEN LET k == CHOOSE x \in 1..Len(before) :
                    /\ LooseEq(before[x].id, id)
                    /\ \A y \in 1..x - 1 : ~LooseEq(before[y].id, id)
         IN <<before[k]>>
    ELSE <<>>

RECURSIVE ChangedIssues(_, _)
ChangedIssues(before, after) ==
  IF after = <<>> THEN <<>>
  ELSE LET issue == after[1]
           b == FindById(before, issue.id)
           rest == ChangedIssues(before, Tail(after))
       IN IF Truthy(issue.id) /\ b # <<>> /\ ~IssueEquals(b[1], issue)
            THEN <<[before |-> b[1], after |-> issue]>> \o rest
            ELSE rest

issuesDiff(beforeIssues, afterIssues) ==
  [added |-> SelectIdLess(afterIssues),
   removed |-> DifferenceById(beforeIssues, afterIssues),
   changed |-> ChangedIssues(beforeIssues, afterIssues)]

milestoneDiff(beforeMilestone, afterMilestone) ==
  [added |-> IF ~beforeMilestone.present /\ afterMilestone.present
               THEN <<afterMilestone>> ELSE <<>>,
   removed |-> IF beforeMilestone.present /\ ~afterMilestone.present
                 THEN <<beforeMilestone>> ELSE <<>>,
   changed |-> IF beforeMilestone.present /\ afterMilestone.present
                  /\ ~EntityEquals(beforeMilestone, afterMilestone)
                 THEN <<[before |-> beforeMilestone, after |-> afterMilestone]>>
                 ELSE <<>>]

\* beforeProject?.id
HasId(p) == p.present /\ Truthy(p.id)

projectDiff(beforeProject, afterProject) ==
  [added |-> IF ~HasId(beforeProject) /\ afterProject.present
               THEN <<afterProject>> ELSE <<>>,
   removed |-> IF HasId(beforeProject) /\ ~afterProject.present
                 THEN <<beforeProject>> ELSE <<>>,
   changed |-> IF HasId(beforeProject) /\ afterProject.present
                  /\ ~EntityEquals(beforeProject, afterProject)
                 THEN <<[before |-> beforeProject, after |-> afterProject]>>
                 ELSE <<>>]

-----------------------------------------------------------------------------
(* The repository (the Github client) and the entity cache *)

RECURSIVE NumberToString(_)
NumberToString(n) ==
  LET d == <<"0", "1", "2", "3", "4", "5", "6", "7", "8", "9">>
  IN IF n < 10 THEN <<d[n + 1]>> ELSE NumberToString(n \div 10) \o <<d[(n % 10) + 1]>>

\* the number the repository gives the next entity it creates
FreshId(held) == NumberToString(Len(held) + 1)

IndexByTitle(held, title) ==
  IF \E k \in 1..Len(held) : held[k].title = title
    THEN CHOOSE k \in 1..Len(held) :
           held[k].title = title /\ \A j \in 1..k - 1 : held[j].title # title
    ELSE 0

\* parseInt(id) names an entity the repository holds
IndexById(held, id) ==
  IF id # UNDEF /\ \E k \in 1..Len(held) : held[k].id = Str(id)
    THEN CHOOSE k \in 1..Len(held) : held[k].id = Str(id)
    ELSE 0

\* Github.createIssue: the issue the repository stores and returns
CreatedIssue(held, props) ==
  [id |-> FreshId(held), title |-> props.title, description |-> props.description,
   status |-> props.status, statusReason |-> props.statusReason,
   milestoneId |-> IF Truthy(props.milestoneId) THEN Str(props.milestoneId) ELSE UNDEF,
   projectId |-> props.projectId]

\* Github.updateIssue
UpdatedIssue(old, props) ==
  [old EXCEPT !.title = props.title, !.description = props.description,
              !.status = props.status, !.statusReason = props.statusReason,
              !.milestoneId = IF Truthy(props.milestoneId)
                                THEN Str(props.milestoneId) ELSE UNDEF]

\* Github.hideIssue
HiddenIssue(old) == [old EXCEPT !.status = "closed", !.statusReason = "not_planned"]

\* IssueCache.add / update / remove; update and remove throw on a missing id
CacheIndex(state, id) ==
  IF \E k \in 1..Len(state) : state[k].id = id
    THEN CHOOSE k \in 1..Len(state) :
           state[k].id = id /\ \A j \in 1..k - 1 : state[j].id # id
    ELSE 0
CacheAdd(state, data) == Append(state, data)
CacheUpdate(state, data) == [state EXCEPT ![CacheIndex(state, data.id)] = data]
CacheRemove(state, id) ==
  LET k == CacheIndex(state, id)
  IN SubSeq(state, 1, k - 1) \o SubSeq(state, k + 1, Len(state))

-----------------------------------------------------------------------------
(* The change cache *)

EmptyCache == [p \in {} |-> <<>>]
HasEntry(cache, p) == p \in DOMAIN cache
CachePut(cache, p, content) ==
  [q \in DOMAIN cache \cup {p} |-> IF q = p THEN content ELSE cache[q]]
CacheDelete(cache, p) == [q \in DOMAIN cache \ {p} |-> cache[q]]
\* const prev = this.noteCache[file.path]; if (!prev): no entry, or ""
HasPrev(cache, p) == HasEntry(cache, p) /\ cache[p] # << <<>> >>

\* a first observation that returns without the assignment, what C8 must
\* tell apart
FirstObservationForgets(cache, p, content) == cache

\* onChanged, first observation: this.noteCache[file.path] = content
FirstObservation(cache, p, content) == CachePut(cache, p, content)

\* onChanged: if (issueDiff.added.length || milestoneDiff.added.length)
InvalidatesCache(issueDiff, mDiff, pDiff) ==
  issueDiff.added # <<>> \/ mDiff.added # <<>>

\* onChanged, cache update after the diff
CacheAfterDiff(cache, p, content, issueDiff, mDiff, pDiff) ==
  IF InvalidatesCache(issueDiff, mDiff, pDiff)
    THEN CacheDelete(cache, p)
    ELSE CachePut(cache, p, content)

\* onChanged: props[PROPERTY_TYPE] && !props[PROPERTY_REPO]
RepoMissing(props) ==
  Truthy(Prop(props, PROPERTY_TYPE)) /\ ~Truthy(Prop(props, PROPERTY_REPO))
RepoIsPlaceholder(props) == Prop(props, PROPERTY_REPO) = REPO_PLACEHOLDER

-----------------------------------------------------------------------------
(* The guard of onChanged *)

IgnoreObsidian == <<"/", ".", "o", "b", "s", "i", "d", "i", "a", "n", "/">>
IgnoreGit == <<"/", ".", "g", "i", "t", "/">>

\* ignorePattern.test(file.path)
IgnorePattern(p) == IndexOf(p, IgnoreObsidian, 0) # -1 \/ IndexOf(p, IgnoreGit, 0) # -1

\* the event gets past lines 174-177
PassesGuard(sync, p) == sync /\ EndsWith(p, MdExt) /\ ~IgnorePattern(p)

\* file.name: the path behind its last "/"
RECURSIVE FileName(_)
FileName(p) ==
  LET i == IndexOf(p, <<"/">>, 0) IN IF i = -1 THEN p ELSE FileName(Drop(p, i + 1))

-----------------------------------------------------------------------------
(* The notes and the user saves the runs draw from *)

LineRepo == <<"m", "i", "s", "s", "i", "o", "n", ".", "r", "e", "p", "o", ":", " ", "o", "/", "r">>
LineRepoMalformed == <<"m", "i", "s", "s", "i", "o", "n", ".", "r", "e", "p", "o", ":", " ", "x">>
LineRepoPlaceholder == <<"m", "i", "s", "s", "i", "o", "n", ".", "r", "e", "p", "o", ":", " ", "o", "r", "g", "/", "r", "e", "p", "o">>
LineTypeMilestone == <<"m", "i", "s", "s", "i", "o", "n", ".", "t", "y", "p", "e", ":", " ", "m", "i", "l", "e", "s", "t", "o", "n", "e">>
LineTypeIssue == <<"m", "i", "s", "s", "i", "o", "n", ".", "t", "y", "p", "e", ":", " ", "i", "s", "s", "u", "e">>
LineTypeProject == <<"m", "i", "s", "s", "i", "o", "n", ".", "t", "y", "p", "e", ":", " ", "p", "r", "o", "j", "e", "c", "t">>
LineId == <<"m", "i", "s", "s", "i", "o", "n", ".", "i", "d", ":", " ", "7">>
LineProjectId == <<"m", "i", "s", "s", "i", "o", "n", ".", "i", "d", ":", " ", "P", "1">>
LineHead == <<"H", "d">>
LineHeadEdited == <<"H", "e">>
LineIssues == <<"#", "#", " ", "I", "s", "s", "u", "e", "s">>
LineA == <<"-", " ", "[", " ", "]", " ", "A", " ", "(", "1", ")">>
LineAClosed == <<"-", " ", "[", "x", "]", " ", "A", " ", "(", "1", ")">>
LineB == <<"-", " ", "[", " ", "]", " ", "B">>
LineC == <<"-", " ", "[", " ", "]", " ", "C">>
LineZ == <<"-", " ", "[", " ", "]", " ", "Z", " ", "(", "1", ")">>
LineD == <<"-", " ", "[", " ", "]", " ", "D", " ", "(", "2", ")">>
LineG == <<"-", " ", "[", " ", "]", " ", "G", " ", "(", "9", ")">>
LineBIndented == <<" ", " ", "-", " ", "[", " ", "]", " ", "B">>
LineDesc == <<" ", " ", "-", " ", "d", "e">>
MainPath == <<"n", ".", "m", "d">>
PathText == <<"n", ".", "t", "x", "t">>
PathObsidianRoot == <<".", "o", "b", "s", "i", "d", "i", "a", "n", "/", "x", ".", "m", "d">>
PathObsidianNested == <<"d", "/", ".", "o", "b", "s", "i", "d", "i", "a", "n", "/", "x", ".", "m", "d">>
PathGitRoot == <<".", "g", "i", "t", "/", "x", ".", "m", "d">>
PathGitNested == <<"d", "/", ".", "g", "i", "t", "/", "x", ".", "m", "d">>

Paths == {MainPath, PathText, PathObsidianRoot, PathObsidianNested, PathGitRoot,
          PathGitNested}

MilestoneNote(repoLines, head, issueLines) ==
  <<Dashes>> \o repoLines \o <<LineTypeMilestone, LineId, Dashes, head, LineIssues>>
    \o issueLines
ProjectNote(idLines, head) ==
  <<Dashes, LineRepo, LineTypeProject>> \o idLines \o <<Dashes, head, LineIssues>>
PlainNote == <<Dashes, LineRepo, Dashes, LineHead, LineIssues, LineA>>
Tracked(issueLines) == MilestoneNote(<<LineRepo>>, LineHead, issueLines)
\* a note with a repo and an id whose type is given by typeLines
TypedNote(typeLines) ==
  <<Dashes, LineRepo>> \o typeLines \o <<LineId, Dashes, LineHead, LineIssues, LineA>>

RemoteIssue(id, title, milestoneId) ==
  [id |-> id, title |-> title, description |-> UNDEF, status |-> "open",
   statusReason |-> "undefined", milestoneId |-> milestoneId, projectId |-> UNDEF]
RemoteA == RemoteIssue(<<"1">>, <<"A">>, <<"7">>)
RemoteEntity(id, title, description) ==
  [id |-> id, title |-> title, description |-> description]

\* a scenario: the note as the run starts, whether onOpened has cached it,
\* the texts the user may save, and what the repository holds
Scenario(name, base, cached, saves, issues, milestones, projects) ==
  [name |-> name, base |-> base, cached |-> cached, saves |-> saves,
   issues |-> issues, milestones |-> milestones, projects |-> projects]

Scenarios ==
  { Scenario("add1", Tracked(<<LineA>>), TRUE, {Tracked(<<LineA, LineB>>)},
             <<RemoteA>>, <<>>, <<>>),
    Scenario("add2", Tracked(<<LineA>>), TRUE, {Tracked(<<LineA, LineB, LineC>>)},
             <<RemoteA>>, <<>>, <<>>),
    Scenario("addTwice", Tracked(<<LineA>>), TRUE, {Tracked(<<LineA, LineB, LineB>>)},
             <<RemoteA>>, <<>>, <<>>),
    Scenario("link", Tracked(<<LineA>>), TRUE, {Tracked(<<LineA, LineB>>)},
             <<RemoteA, RemoteIssue(<<"2">>, <<"B">>, <<"7">>)>>, <<>>, <<>>),
    Scenario("relink", Tracked(<<LineA>>), TRUE, {Tracked(<<LineA, LineB>>)},
             <<RemoteA, RemoteIssue(<<"2">>, <<"B">>, UNDEF)>>, <<>>, <<>>),
    Scenario("remove", Tracked(<<LineA>>), TRUE, {Tracked(<<>>)},
             <<RemoteA>>, <<>>, <<>>),
    Scenario("removeKeep", Tracked(<<LineA, LineB>>), TRUE, {Tracked(<<LineB>>)},
             <<RemoteA>>, <<>>, <<>>),
    Scenario("close", Tracked(<<LineA>>), TRUE, {Tracked(<<LineAClosed>>)},
             <<RemoteA>>, <<>>, <<>>),
    Scenario("removeIdLess", Tracked(<<LineA, LineB>>), TRUE, {Tracked(<<LineA>>)},
             <<RemoteA>>, <<>>, <<>>),
    Scenario("addClose", Tracked(<<LineA>>), TRUE,
             {Tracked(<<LineA, LineB>>), Tracked(<<LineAClosed, LineB>>)},
             <<RemoteA>>, <<>>, <<>>),
    Scenario("repo", Tracked(<<LineA>>), TRUE,
             {MilestoneNote(<<>>, LineHead, <<LineA>>),
              MilestoneNote(<<LineRepoMalformed>>, LineHead, <<LineA>>),
              MilestoneNote(<<LineRepoPlaceholder>>, LineHead, <<LineA>>)},
             <<RemoteA>>, <<>>, <<>>),
    Scenario("first", Tracked(<<LineA>>), FALSE, {Tracked(<<LineA, LineB>>)},
             <<RemoteA>>, <<>>, <<>>),
    Scenario("milestone", PlainNote, TRUE, {Tracked(<<LineA>>)},
             <<RemoteA>>, <<>>, <<>>),
    Scenario("milestoneHeld", PlainNote, TRUE, {Tracked(<<LineA>>)},
             <<RemoteA>>, <<RemoteEntity(<<"1">>, <<"n">>, UNDEF)>>, <<>>),
    Scenario("project", PlainNote, TRUE, {ProjectNote(<<>>, LineHead)},
             <<RemoteA>>, <<>>, <<>>),
    Scenario("projectHeld", PlainNote, TRUE, {ProjectNote(<<>>, LineHead)},
             <<RemoteA>>, <<>>, <<RemoteEntity(<<"P", "1">>, <<"n">>, UNDEF)>>),
    Scenario("editMilestone", Tracked(<<LineA>>), TRUE,
             {MilestoneNote(<<LineRepo>>, LineHeadEdited, <<LineA>>)},
             <<RemoteA>>, <<RemoteEntity(<<"7">>, <<"n">>, LineHead)>>, <<>>),
    Scenario("editProject", ProjectNote(<<LineProjectId>>, LineHead), TRUE,
             {ProjectNote(<<LineProjectId>>, LineHeadEdited)},
             <<>>, <<>>, <<RemoteEntity(<<"P", "1">>, <<"n">>, LineHead)>>),
    Scenario("unlinkProject", ProjectNote(<<LineProjectId>>, LineHead), TRUE,
             {ProjectNote(<<>>, LineHeadEdited)},
             <<>>, <<>>, <<RemoteEntity(<<"P", "1">>, <<"n">>, LineHead)>>),
    Scenario("firstRemove", Tracked(<<LineA>>), FALSE, {Tracked(<<>>)},
             <<RemoteA>>, <<>>, <<>>),
    Scenario("firstClose", Tracked(<<LineA>>), FALSE, {Tracked(<<LineAClosed>>)},
             <<RemoteA>>, <<>>, <<>>),
    Scenario("ghost", Tracked(<<LineA, LineG>>), TRUE, {Tracked(<<LineAClosed>>)},
             <<RemoteA>>, <<>>, <<>>),
    Scenario("indent", Tracked(<<LineA>>), TRUE,
             {Tracked(<<LineBIndented, LineAClosed>>)},
             <<RemoteA>>, <<>>, <<>>) }

\* the notes the commands are run on (the active note), with no other save
\* than that of the unchanged text
CommandScenarios ==
  { Scenario("cmdIndent", Tracked(<<LineBIndented, LineA>>), TRUE, {},
             <<RemoteA>>, <<>>, <<>>),
    Scenario("cmdRename", Tracked(<<LineZ, LineB>>), TRUE, {},
             <<RemoteA>>, <<>>, <<>>),
    Scenario("cmdPlain", PlainNote, TRUE, {}, <<RemoteA>>, <<>>, <<>>),
    Scenario("cmdHeld", PlainNote, TRUE, {},
             <<RemoteA>>, <<RemoteEntity(<<"1">>, <<"n">>, UNDEF)>>, <<>>),
    Scenario("cmdNoRepo", MilestoneNote(<<>>, LineHead, <<LineA>>), TRUE, {},
             <<RemoteA>>, <<>>, <<>>),
    Scenario("cmdGhost", Tracked(<<LineZ, LineG>>), TRUE, {},
             <<RemoteA>>, <<>>, <<>>),
    Scenario("cmdNoType", TypedNote(<<>>), TRUE, {}, <<RemoteA>>, <<>>, <<>>),
    Scenario("cmdOtherType", TypedNote(<<LineTypeIssue>>), TRUE, {},
             <<RemoteA>>, <<>>, <<>>),
    Scenario("cmdOrder", Tracked(<<LineA>>), TRUE, {},
             <<[RemoteIssue(<<"3">>, <<"C">>, <<"7">>)
                  EXCEPT !.status = "closed", !.statusReason = "completed"],
               RemoteIssue(<<"2">>, <<"B">>, <<"7">>), RemoteA>>, <<>>, <<>>),
    Scenario("cmdProject", ProjectNote(<<LineProjectId>>, LineHead), TRUE, {},
             <<[RemoteA EXCEPT !.projectId = <<"P", "1">>]>>, <<>>,
             <<RemoteEntity(<<"P", "1">>, <<"n">>, UNDEF)>>) }

\* the runs of one user save that are followed until nothing is in flight:
\* a project the repository does not hold, one it holds, an issue that is
\* closed, added, linked or removed
QuiesceScenarios ==
  { Scenario("quietProject", PlainNote, TRUE, {ProjectNote(<<>>, LineHead)},
             <<RemoteA>>, <<>>, <<>>),
    Scenario("quietHeld", PlainNote, TRUE, {ProjectNote(<<>>, LineHead)},
             <<RemoteA>>, <<>>, <<RemoteEntity(<<"P", "1">>, <<"n">>, UNDEF)>>),
    Scenario("quietClose", Tracked(<<LineA>>), TRUE, {Tracked(<<LineAClosed>>)},
             <<RemoteA>>, <<>>, <<>>),
    Scenario("quietAdd", Tracked(<<LineA>>), TRUE, {Tracked(<<LineA, LineB>>)},
             <<RemoteA>>, <<>>, <<>>),
    Scenario("quietLink", Tracked(<<LineA>>), TRUE, {Tracked(<<LineA, LineB>>)},
             <<RemoteA, RemoteIssue(<<"2">>, <<"B">>, UNDEF)>>, <<>>, <<>>),
    Scenario("quietRemove", Tracked(<<LineA>>), TRUE, {Tracked(<<>>)},
             <<RemoteA>>, <<>>, <<>>) }
QuiesceRuns == {s.name : s \in QuiesceScenarios}

ScenarioNames == {s.name : s \in Scenarios}
ScenarioOf(name) ==
  CHOOSE s \in Scenarios \cup CommandScenarios \cup QuiesceScenarios : s.name = name
\* the number of invocations a run may hold
TaskBound == IF scenario \in QuiesceRuns THEN MaxQuiesceTasks ELSE MaxTasks
\* the runs on a path other than the main note only decide the guard
GuardScenarios == {"first", "close"}

-----------------------------------------------------------------------------
(* Handler invocations *)

NoDiff == [added |-> <<>>, removed |-> <<>>, changed |-> <<>>]
NoIssue ==
  [id |-> UNDEF, title |-> UNDEF, description |-> UNDEF, status |-> "open",
   statusReason |-> "undefined", milestoneId |-> UNDEF, projectId |-> UNDEF]

\* one invocation of a handler.  ev is the change event it belongs to (the
\* index of that event's onChanged invocation); origin tells who saved the
\* text the event reports: "user" (a save that changed the text), "touch"
\* (a save of the unchanged text) or "self" (a write of the plugin).
Task(kind, pc, ev, origin) ==
  [kind |-> kind, pc |-> pc, ev |-> ev, origin |-> origin,
   issue |-> NoIssue, entity |-> NoMilestone, props |-> <<>>,
   prev |-> <<>>, text |-> <<>>, text2 |-> <<>>, text3 |-> <<>>, fetched |-> <<>>,
   issueDiff |-> NoDiff, milestoneDiff |-> NoDiff, projectDiff |-> NoDiff,
   calls |-> <<>>, writes |-> 0, outcome |-> ""]

\* a call of an IssueRepository method, as the repository sees it
Call(method, title, id, milestoneId, found) ==
  [method |-> method, title |-> title, id |-> id, milestoneId |-> milestoneId,
   found |-> found]

Log(t, call) == [t EXCEPT !.calls = Append(@, call)]
Finished(t) == t.pc \in {"done", "failed"}
Done(t, outcome) == [t EXCEPT !.pc = "done", !.outcome = outcome]
Failed(t, outcome) == [t EXCEPT !.pc = "failed", !.outcome = outcome]

\* vault.on("modify", ...): the synchronous head of onChanged; an event that
\* fails the guard returns at once and leaves no invocation behind
Arrive(ts, origin) ==
  IF PassesGuard(autoSync, path)
    THEN Append(ts, Task("onChanged", "read", Len(ts) + 1, origin))
    ELSE ts

\* a write of the plugin: app.vault.modify, which fires "modify"
Written(ts, i, t) == Arrive([ts EXCEPT ![i] = [t EXCEPT !.writes = @ + 1]], "self")

-----------------------------------------------------------------------------
(* Initial state: the plugin is constructed; in a run whose scenario is     *)
(* cached the note has been opened, so onOpened has filled both caches      *)

onOpened(p, content) ==
  [noteCache |-> CachePut(EmptyCache, p, content),
   issueCache |-> getIssues(content, FileName(p))]

InitialNoteCache(name, p) ==
  IF ScenarioOf(name).cached /\ EndsWith(p, MdExt)
    THEN onOpened(p, ScenarioOf(name).base).noteCache ELSE EmptyCache
InitialIssueCache(name, p) ==
  IF ScenarioOf(name).cached /\ EndsWith(p, MdExt)
    THEN onOpened(p, ScenarioOf(name).base).issueCache ELSE <<>>

Init ==
  /\ scenario \in ScenarioNames
  /\ path \in Paths
  /\ path # MainPath => scenario \in GuardScenarios
  /\ autoSync \in BOOLEAN
  /\ accessToken \in BOOLEAN
  /\ vault = ScenarioOf(scenario).base
  /\ noteCache = InitialNoteCache(scenario, path)
  /\ issueCache = InitialIssueCache(scenario, path)
  /\ remoteIssues = ScenarioOf(scenario).issues
  /\ remoteMilestones = ScenarioOf(scenario).milestones
  /\ remoteProjects = ScenarioOf(scenario).projects
  /\ tasks = <<>>
  /\ edits = 0

-----------------------------------------------------------------------------
(* The user saves the note *)

UserEdit(text) ==
  /\ edits < MaxEdits
  /\ vault' = text
  /\ tasks' = Arrive(tasks, IF text = vault THEN "touch" ELSE "user")
  /\ Len(tasks') <= TaskBound
  /\ edits' = edits + 1
  /\ UNCHANGED <<path, noteCache, issueCache, remoteIssues, remoteMilestones,
                 remoteProjects, autoSync, accessToken, scenario>>

-----------------------------------------------------------------------------
(* onChanged *)

\* the invocations the apply step starts, in the order of Promise.all
IssueTasks(kind, pc, e, origin, issues) ==
  [k \in 1..Len(issues) |-> [Task(kind, pc, e, origin) EXCEPT !.issue = issues[k]]]
ChangedIssueTasks(e, origin, changed) ==
  [k \in 1..Len(changed) |->
     [Task("updateIssue", "updateIssue", e, origin) EXCEPT !.issue = changed[k].after]]
EntityTasks(kind, pc, e, origin, entities) ==
  [k \in 1..Len(entities) |-> [Task(kind, pc, e, origin) EXCEPT !.entity = entities[k]]]
\* handleNewProject throws before its first await when the title is empty
NewProjectTasks(e, origin, added) ==
  [k \in 1..Len(added) |->
     IF Truthy(added[k].title)
       THEN [Task("handleNewProject", "fetchProject", e, origin)
               EXCEPT !.entity = added[k]]
       ELSE Failed([Task("handleNewProject", "fetchProject", e, origin)
                      EXCEPT !.entity = added[k]], "project title is required")]
ChangedAfter(changed) == [k \in 1..Len(changed) |-> changed[k].after]

\* the apply step without the filter on p.after.id, what C16 must tell apart
ApplyTasksUnfiltered(t) ==
  IssueTasks("handleNewIssue", "fetchIssue", t.ev, t.origin, t.issueDiff.added)
  \o IssueTasks("hideIssue", "hideIssue", t.ev, t.origin, t.issueDiff.removed)
  \o ChangedIssueTasks(t.ev, t.origin, t.issueDiff.changed)
  \o EntityTasks("handleNewMilestone", "fetchMilestone", t.ev, t.origin,
                 t.milestoneDiff.added)
  \o EntityTasks("updateMilestone", "updateMilestone", t.ev, t.origin,
                 ChangedAfter(t.milestoneDiff.changed))
  \o NewProjectTasks(t.ev, t.origin, t.projectDiff.added)
  \o EntityTasks("updateProject", "updateProject", t.ev, t.origin,
                 ChangedAfter(t.projectDiff.changed))

ApplyTasks(t) ==
  IssueTasks("handleNewIssue", "fetchIssue", t.ev, t.origin, t.issueDiff.added)
  \o IssueTasks("hideIssue", "hideIssue", t.ev, t.origin, t.issueDiff.removed)
  \o ChangedIssueTasks(t.ev, t.origin, t.issueDiff.changed)
  \o EntityTasks("handleNewMilestone", "fetchMilestone", t.ev, t.origin,
                 t.milestoneDiff.added)
  \o EntityTasks("updateMilestone", "updateMilestone", t.ev, t.origin,
                 ChangedAfter(t.milestoneDiff.changed))
  \o NewProjectTasks(t.ev, t.origin, t.projectDiff.added)
  \o EntityTasks("updateProject", "updateProject", t.ev, t.origin,
                 SelectSeq(ChangedAfter(t.projectDiff.changed),
                           LAMBDA p : Truthy(p.id)))

\* lines 179-215: from the read of the file to the await of note.getRepo()
OnChangedRead(i) ==
  LET t == tasks[i]
      content == vault
      name == FileName(path)
      props == Properties(content)
      prev == noteCache[path]
      iDiff == issuesDiff(getIssues(prev, name), getIssues(content, name))
      mDiff == milestoneDiff(getTrackedMilestone(prev, name),
                             getTrackedMilestone(content, name))
      pDiff == projectDiff(getTrackedProject(prev, name),
                           getTrackedProject(content, name))
      read == [t EXCEPT !.text = content]
  IN /\ t.kind = "onChanged" /\ t.pc = "read"
     /\ IF ~HasPrev(noteCache, path)
          THEN /\ noteCache' = FirstObservation(noteCache, path, content)
               /\ tasks' = [tasks EXCEPT ![i] = Done(read, "first")]
        ELSE IF RepoMissing(props)
          THEN /\ noteCache' = CacheDelete(noteCache, path)
               /\ tasks' = Append([tasks EXCEPT ![i] = Done(read, "no repo")],
                                  [Task("setProperty", "properties", t.ev, t.origin)
                                     EXCEPT !.props = <<[k |-> PROPERTY_REPO,
                                                         v |-> REPO_PLACEHOLDER]>>])
        ELSE IF RepoIsPlaceholder(props)
          THEN /\ noteCache' = noteCache
               /\ tasks' = [tasks EXCEPT ![i] = Done(read, "placeholder")]
        ELSE /\ noteCache' = CacheAfterDiff(noteCache, path, content, iDiff, mDiff, pDiff)
             /\ tasks' = [tasks EXCEPT ![i] =
                            [read EXCEPT !.pc = "repo", !.prev = prev,
                                         !.issueDiff = iDiff,
                                         !.milestoneDiff = mDiff, !.projectDiff = pDiff]]
     /\ Len(tasks') <= TaskBound
     /\ UNCHANGED <<path, vault, issueCache, remoteIssues, remoteMilestones,
                    remoteProjects, autoSync, accessToken, scenario, edits>>

\* lines 217-245: note.getRepo() has read the file; the apply step starts
OnChangedApply(i) ==
  LET t == tasks[i]
      r == getRepo(vault)
  IN /\ t.kind = "onChanged" /\ t.pc = "repo"
     /\ tasks' = IF ~r.ok THEN [tasks EXCEPT ![i] = Done(t, "no org/repo")]
                 ELSE IF ~accessToken
                   THEN [tasks EXCEPT ![i] = Failed(t, "no access token")]
                 ELSE [tasks EXCEPT ![i] = Done(t, "applied")] \o ApplyTasks(t)
     /\ Len(tasks') <= TaskBound
     /\ UNCHANGED <<path, vault, noteCache, issueCache, remoteIssues,
                    remoteMilestones, remoteProjects, autoSync, accessToken,
                    scenario, edits>>

-----------------------------------------------------------------------------
(* handleNewIssue *)

\* repo.fetchIssueByTitle(issue.title) answers
FetchIssueByTitle(i) ==
  LET t == tasks[i]
      k == IndexByTitle(remoteIssues, t.issue.title)
      source == remoteIssues[k]
      call == Call("fetchIssueByTitle", t.issue.title,
                   IF k = 0 THEN UNDEF ELSE source.id,
                   IF k = 0 THEN UNDEF ELSE source.milestoneId, k # 0)
      adopted == [Log(t, call) EXCEPT !.issue.id = source.id]
  IN /\ t.kind = "handleNewIssue" /\ t.pc = "fetchIssue"
     /\ tasks' = [tasks EXCEPT ![i] =
          IF k = 0 THEN [Log(t, call) EXCEPT !.pc = "createIssue"]
          ELSE IF Truthy(t.issue.milestoneId)
                  /\ ~LooseEq(t.issue.milestoneId, source.milestoneId)
            THEN [adopted EXCEPT !.pc = "linkIssue"]
          ELSE [adopted EXCEPT !.pc = "setIdRead"]]
     /\ UNCHANGED <<path, vault, noteCache, issueCache, remoteIssues,
                    remoteMilestones, remoteProjects, autoSync, accessToken,
                    scenario, edits>>

\* the calls of one Github.createIssue / updateIssue
IssueCalls(method, issue) ==
  <<Call(method, issue.title, issue.id, issue.milestoneId, TRUE)>>
  \o IF Truthy(issue.projectId)
       THEN <<Call("addIssueToProject", issue.title, issue.id, issue.projectId, TRUE)>>
       ELSE <<>>

\* repo.createIssue(issue) answers
CreateIssue(i) ==
  LET t == tasks[i]
      created == CreatedIssue(remoteIssues, t.issue)
      issue == [t.issue EXCEPT !.id = created.id]
  IN /\ t.kind = "handleNewIssue" /\ t.pc = "createIssue"
     /\ remoteIssues' = Append(remoteIssues, created)
     /\ tasks' = [tasks EXCEPT ![i] =
          [t EXCEPT !.pc = "setIdRead", !.issue = issue,
                    !.calls = @ \o IssueCalls("createIssue", issue)]]
     /\ UNCHANGED <<path, vault, noteCache, issueCache, remoteMilestones,
                    remoteProjects, autoSync, accessToken, scenario, edits>>

\* repo.updateIssue(issue) of a found issue whose milestone differs
LinkIssue(i) ==
  LET t == tasks[i]
      k == IndexById(remoteIssues, t.issue.id)
      called == [t EXCEPT !.calls = @ \o IssueCalls("updateIssue", t.issue)]
  IN /\ t.kind = "handleNewIssue" /\ t.pc = "linkIssue"
     /\ IF k = 0
          THEN /\ tasks' = [tasks EXCEPT ![i] = Failed(called, "rejected")]
               /\ UNCHANGED remoteIssues
          ELSE /\ remoteIssues' = [remoteIssues EXCEPT ![k] = UpdatedIssue(@, t.issue)]
               /\ tasks' = [tasks EXCEPT ![i] = [called EXCEPT !.pc = "setIdRead"]]
     /\ UNCHANGED <<path, vault, noteCache, issueCache, remoteMilestones,
                    remoteProjects, autoSync, accessToken, scenario, edits>>

\* handleNewIssue without its try/catch, what C17 must tell apart
SetIdReadUncaught(i) ==
  LET t == tasks[i]
      r == setIdOnIssue(vault, t.issue.title, t.issue.id)
  IN /\ t.kind = "handleNewIssue" /\ t.pc = "setIdRead"
     /\ tasks' = [tasks EXCEPT ![i] =
          IF r.found THEN [t EXCEPT !.pc = "setIdWrite", !.text = vault]
          ELSE Failed([t EXCEPT !.text = vault], "line not found")]
     /\ UNCHANGED <<path, vault, noteCache, issueCache, remoteIssues,
                    remoteMilestones, remoteProjects, autoSync, accessToken,
                    scenario, edits>>

\* note.setIdOnIssue: replaceLine has read the note; a title without a line
\* throws, which handleNewIssue catches
SetIdRead(i) ==
  LET t == tasks[i]
      r == setIdOnIssue(vault, t.issue.title, t.issue.id)
  IN /\ t.kind = "handleNewIssue" /\ t.pc = "setIdRead"
     /\ IF r.found
          THEN /\ tasks' = [tasks EXCEPT ![i] =
                              [t EXCEPT !.pc = "setIdWrite", !.text = vault]]
               /\ UNCHANGED issueCache
          ELSE /\ tasks' = [tasks EXCEPT ![i] =
                              Done([t EXCEPT !.text = vault], "line not found")]
               /\ issueCache' = CacheAdd(issueCache, t.issue)
     /\ UNCHANGED <<path, vault, noteCache, remoteIssues, remoteMilestones,
                    remoteProjects, autoSync, accessToken, scenario, edits>>

\* replaceLine writes the text it computed from what it read; then
\* this.issueCache.add(issue)
SetIdWrite(i) ==
  LET t == tasks[i]
  IN /\ t.kind = "handleNewIssue" /\ t.pc = "setIdWrite"
     /\ vault' = setIdOnIssue(t.text, t.issue.title, t.issue.id).text
     /\ tasks' = Written(tasks, i, Done(t, "id set"))
     /\ Len(tasks') <= TaskBound
     /\ issueCache' = CacheAdd(issueCache, t.issue)
     /\ UNCHANGED <<path, noteCache, remoteIssues, remoteMilestones,
                    remoteProjects, autoSync, accessToken, scenario, edits>>

-----------------------------------------------------------------------------
(* removed and changed issues *)

\* issueRepo.hideIssue(i.id); this.issueCache.remove(i.id)
HideIssue(i) ==
  LET t == tasks[i]
      k == IndexById(remoteIssues, t.issue.id)
      called == Log(t, Call("hideIssue", t.issue.title, t.issue.id, UNDEF, k # 0))
  IN /\ t.kind = "hideIssue" /\ t.pc = "hideIssue"
     /\ IF k = 0
          THEN /\ tasks' = [tasks EXCEPT ![i] = Failed(called, "rejected")]
               /\ UNCHANGED <<remoteIssues, issueCache>>
          ELSE /\ remoteIssues' = [remoteIssues EXCEPT ![k] = HiddenIssue(@)]
               /\ IF CacheIndex(issueCache, t.issue.id) = 0
                    THEN /\ tasks' = [tasks EXCEPT ![i] = Failed(called, "not found")]
                         /\ UNCHANGED issueCache
                    ELSE /\ tasks' = [tasks EXCEPT ![i] = Done(called, "hidden")]
                         /\ issueCache' = CacheRemove(issueCache, t.issue.id)
     /\ UNCHANGED <<path, vault, noteCache, remoteMilestones, remoteProjects,
                    autoSync, accessToken, scenario, edits>>

\* issueRepo.updateIssue(i.after); this.issueCache.update(i.after)
UpdateIssue(i) ==
  LET t == tasks[i]
      k == IndexById(remoteIssues, t.issue.id)
      called == [t EXCEPT !.calls = @ \o IssueCalls("updateIssue", t.issue)]
  IN /\ t.kind = "updateIssue" /\ t.pc = "updateIssue"
     /\ IF k = 0
          THEN /\ tasks' = [tasks EXCEPT ![i] = Failed(called, "rejected")]
               /\ UNCHANGED <<remoteIssues, issueCache>>
          ELSE /\ remoteIssues' = [remoteIssues EXCEPT ![k] = UpdatedIssue(@, t.issue)]
               /\ IF CacheIndex(issueCache, t.issue.id) = 0
                    THEN /\ tasks' = [tasks EXCEPT ![i] = Failed(called, "not found")]
                         /\ UNCHANGED issueCache
                    ELSE /\ tasks' = [tasks EXCEPT ![i] = Done(called, "updated")]
                         /\ issueCache' = CacheUpdate(issueCache, t.issue)
     /\ UNCHANGED <<path, vault, noteCache, remoteMilestones, remoteProjects,
                    autoSync, accessToken, scenario, edits>>

-----------------------------------------------------------------------------
(* handleNewMilestone, handleNewProject and the changed entities *)

\* setProperties({ [PROPERTY_TYPE]: type, [PROPERTY_ID]: id })
IdProps(type, id) == <<[k |-> PROPERTY_TYPE, v |-> type], [k |-> PROPERTY_ID, v |-> id]>>

\* the entity with the id the repository holds, about to be written back
Resolved(t, call, id, type) ==
  [Log(t, call) EXCEPT !.pc = "properties", !.entity.id = id,
                       !.props = IdProps(type, id)]

\* repo.fetchMilestoneByTitle(milestone.title) answers
FetchMilestoneByTitle(i) ==
  LET t == tasks[i]
      k == IndexByTitle(remoteMilestones, t.entity.title)
      call == Call("fetchMilestoneByTitle", t.entity.title,
                   IF k = 0 THEN UNDEF ELSE remoteMilestones[k].id, UNDEF, k # 0)
  IN /\ t.kind = "handleNewMilestone" /\ t.pc = "fetchMilestone"
     /\ tasks' = [tasks EXCEPT ![i] =
          IF k = 0 THEN [Log(t, call) EXCEPT !.pc = "createMilestone"]
          ELSE Resolved(t, call, remoteMilestones[k].id, TypeMilestone)]
     /\ UNCHANGED <<path, vault, noteCache, issueCache, remoteIssues,
                    remoteMilestones, remoteProjects, autoSync, accessToken,
                    scenario, edits>>

\* repo.createMilestone(milestone) answers: Github sends the title only
CreateMilestone(i) ==
  LET t == tasks[i]
      id == FreshId(remoteMilestones)
  IN /\ t.kind = "handleNewMilestone" /\ t.pc = "createMilestone"
     /\ remoteMilestones' = Append(remoteMilestones,
                                   RemoteEntity(id, t.entity.title, UNDEF))
     /\ tasks' = [tasks EXCEPT ![i] =
          Resolved(t, Call("createMilestone", t.entity.title, id, UNDEF, TRUE),
                   id, TypeMilestone)]
     /\ UNCHANGED <<path, vault, noteCache, issueCache, remoteIssues,
                    remoteProjects, autoSync, accessToken, scenario, edits>>

\* issueRepo.updateMilestone(m.after)
UpdateMilestone(i) ==
  LET t == tasks[i]
      k == IndexById(remoteMilestones, t.entity.id)
      called == Log(t, Call("updateMilestone", t.entity.title, t.entity.id, UNDEF,
                            k # 0))
  IN /\ t.kind = "updateMilestone" /\ t.pc = "updateMilestone"
     /\ IF k = 0
          THEN /\ tasks' = [tasks EXCEPT ![i] = Failed(called, "rejected")]
               /\ UNCHANGED remoteMilestones
          ELSE /\ remoteMilestones' =
                    [remoteMilestones EXCEPT ![k] =
                       RemoteEntity(@.id, t.entity.title, t.entity.description)]
               /\ tasks' = [tasks EXCEPT ![i] = Done(called, "updated")]
     /\ UNCHANGED <<path, vault, noteCache, issueCache, remoteIssues,
                    remoteProjects, autoSync, accessToken, scenario, edits>>

\* repo.fetchProjectByTitle(project.title) answers: the query asks for
\* number, title, shortDescription and closedAt, so toProject gives a
\* project whose id is undefined
FetchProjectByTitle(i) ==
  LET t == tasks[i]
      k == IndexByTitle(remoteProjects, t.entity.title)
      call == Call("fetchProjectByTitle", t.entity.title, UNDEF, UNDEF, k # 0)
  IN /\ t.kind = "handleNewProject" /\ t.pc = "fetchProject"
     /\ tasks' = [tasks EXCEPT ![i] =
          IF k = 0 THEN [Log(t, call) EXCEPT !.pc = "createProject"]
          ELSE Resolved(t, call, UNDEF, TypeProject)]
     /\ UNCHANGED <<path, vault, noteCache, issueCache, remoteIssues,
                    remoteMilestones, remoteProjects, autoSync, accessToken,
                    scenario, edits>>

\* repo.createProject(project) answers: the mutation sends the title only
CreateProject(i) ==
  LET t == tasks[i]
      id == <<"P">> \o FreshId(remoteProjects)
  IN /\ t.kind = "handleNewProject" /\ t.pc = "createProject"
     /\ remoteProjects' = Append(remoteProjects,
                                 RemoteEntity(id, t.entity.title, UNDEF))
     /\ tasks' = [tasks EXCEPT ![i] =
          Resolved(t, Call("createProject", t.entity.title, id, UNDEF, TRUE),
                   id, TypeProject)]
     /\ UNCHANGED <<path, vault, noteCache, issueCache, remoteIssues,
                    remoteMilestones, autoSync, accessToken, scenario, edits>>

\* issueRepo.updateProject(p.after)
UpdateProject(i) ==
  LET t == tasks[i]
      k == IndexById(remoteProjects, t.entity.id)
      called == Log(t, Call("updateProject", t.entity.title, t.entity.id, UNDEF,
                            k # 0))
  IN /\ t.kind = "updateProject" /\ t.pc = "updateProject"
     /\ IF k = 0
          THEN /\ tasks' = [tasks EXCEPT ![i] = Failed(called, "rejected")]
               /\ UNCHANGED remoteProjects
          ELSE /\ remoteProjects' =
                    [remoteProjects EXCEPT ![k] =
                       RemoteEntity(@.id, t.entity.title, t.entity.description)]
               /\ tasks' = [tasks EXCEPT ![i] = Done(called, "updated")]
     /\ UNCHANGED <<path, vault, noteCache, issueCache, remoteIssues,
                    remoteMilestones, autoSync, accessToken, scenario, edits>>

-----------------------------------------------------------------------------
(* The note writes of setProperties and setHeadSection *)

\* setProperties reads the note three times: for the properties, for
\* contentStart, and for the text it slices
SetPropertiesRead(i) ==
  LET t == tasks[i]
  IN /\ t.pc \in {"properties", "contentStart", "slice"}
     /\ tasks' = [tasks EXCEPT ![i] =
          IF t.pc = "properties" THEN [t EXCEPT !.pc = "contentStart", !.text = vault]
          ELSE IF t.pc = "contentStart" THEN [t EXCEPT !.pc = "slice", !.text2 = vault]
          ELSE [t EXCEPT !.pc = "writeProperties", !.text3 = vault]]
     /\ UNCHANGED <<path, vault, noteCache, issueCache, remoteIssues,
                    remoteMilestones, remoteProjects, autoSync, accessToken,
                    scenario, edits>>

\* note.setHeadSection(description ?? "")
HeadContent(entity) == IF entity.description = UNDEF THEN <<>> ELSE entity.description

\* setProperties writes.  handleNewMilestone then starts setHeadSection
\* without awaiting it and returns; handleNewProject awaits it.
SetPropertiesWrite(i) ==
  LET t == tasks[i]
      written == [t EXCEPT !.writes = @ + 1]
      after ==
        IF t.kind = "handleNewProject" THEN <<[written EXCEPT !.pc = "headRead"]>>
        ELSE IF t.kind = "handleNewMilestone"
          THEN <<Done(written, "properties set"),
                 [Task("setHeadSection", "headRead", t.ev, t.origin)
                    EXCEPT !.entity = t.entity]>>
        ELSE <<Done(written, "properties set")>>
  IN /\ t.pc = "writeProperties"
     /\ vault' = setProperties(t.text, t.text2, t.text3, t.props)
     /\ tasks' = Arrive([tasks EXCEPT ![i] = after[1]], "self") \o Tail(after)
     /\ Len(tasks') <= TaskBound
     /\ UNCHANGED <<path, noteCache, issueCache, remoteIssues, remoteMilestones,
                    remoteProjects, autoSync, accessToken, scenario, edits>>

\* setHeadSection has read the note
SetHeadSectionRead(i) ==
  LET t == tasks[i]
  IN /\ t.pc = "headRead"
     /\ tasks' = [tasks EXCEPT ![i] = [t EXCEPT !.pc = "headWrite", !.text = vault]]
     /\ UNCHANGED <<path, vault, noteCache, issueCache, remoteIssues,
                    remoteMilestones, remoteProjects, autoSync, accessToken,
                    scenario, edits>>

\* setHeadSection writes
SetHeadSectionWrite(i) ==
  LET t == tasks[i]
  IN /\ t.pc = "headWrite"
     /\ vault' = setHeadSection(t.text, HeadContent(t.entity))
     /\ tasks' = Written(tasks, i, Done(t, "head set"))
     /\ Len(tasks') <= TaskBound
     /\ UNCHANGED <<path, noteCache, issueCache, remoteIssues, remoteMilestones,
                    remoteProjects, autoSync, accessToken, scenario, edits>>

-----------------------------------------------------------------------------
(* Specification *)

Saves == ScenarioOf(scenario).saves \cup {vault}

Next ==
  \/ \E text \in Saves : UserEdit(text)
  \/ \E i \in 1..Len(tasks) : OnChangedRead(i)
  \/ \E i \in 1..Len(tasks) : OnChangedApply(i)
  \/ \E i \in 1..Len(tasks) : FetchIssueByTitle(i)
  \/ \E i \in 1..Len(tasks) : CreateIssue(i)
  \/ \E i \in 1..Len(tasks) : LinkIssue(i)
  \/ \E i \in 1..Len(tasks) : SetIdRead(i)
  \/ \E i \in 1..Len(tasks) : SetIdWrite(i)
  \/ \E i \in 1..Len(tasks) : HideIssue(i)
  \/ \E i \in 1..Len(tasks) : UpdateIssue(i)
  \/ \E i \in 1..Len(tasks) : FetchMilestoneByTitle(i)
  \/ \E i \in 1..Len(tasks) : CreateMilestone(i)
  \/ \E i \in 1..Len(tasks) : UpdateMilestone(i)
  \/ \E i \in 1..Len(tasks) : FetchProjectByTitle(i)
  \/ \E i \in 1..Len(tasks) : CreateProject(i)
  \/ \E i \in 1..Len(tasks) : UpdateProject(i)
  \/ \E i \in 1..Len(tasks) : SetPropertiesRead(i)
  \/ \E i \in 1..Len(tasks) : SetPropertiesWrite(i)
  \/ \E i \in 1..Len(tasks) : SetHeadSectionRead(i)
  \/ \E i \in 1..Len(tasks) : SetHeadSectionWrite(i)

Spec == Init /\ [][Next]_vars

-----------------------------------------------------------------------------
(* Properties *)

Mutating == {"createIssue", "updateIssue", "hideIssue", "createMilestone",
             "updateMilestone", "createProject", "updateProject"}
Methods(t) == {t.calls[k].method : k \in 1..Len(t.calls)}
TaskIds == 1..Len(tasks)
\* the invocations of change event e: its onChanged and what it started
OfEvent(e) == {i \in TaskIds : tasks[i].ev = e}
Events == {i \in TaskIds : tasks[i].kind = "onChanged"}
Settled(e) == \A i \in OfEvent(e) : Finished(tasks[i])

\* C1: with a single user save, no invocation that belongs to a change event
\* caused by a write of the plugin calls a mutating repository method.
C1_SelfWritesNotRediffed ==
  edits <= 1 =>
    \A i \in TaskIds : tasks[i].origin = "self" => Methods(tasks[i]) \cap Mutating = {}

\* the calls of method m the invocations of event e have made
CallsIn(e, m) ==
  {<<i, k>> \in OfEvent(e) \X (1..MaxTasks * 4) :
     k <= Len(tasks[i].calls) /\ tasks[i].calls[k].method = m}
\* the text has the issue line of this title carrying this id
LineCarries(text, title, id) ==
  \E k \in 1..Len(text) :
    /\ IsIssueLine(text[k])
    /\ IssueOfLine(text[k]).title = title
    /\ IssueOfLine(text[k]).id = id
\* the change events that report a save by which the user changed the text
UserEvents == {e \in Events : tasks[e].origin = "user"}

\* the change events whose diff finds an id-less issue line
AddingEvents == {e \in Events : tasks[e].issueDiff.added # <<>>}

\* C2: on the tracked note with a cached baseline and a repository without an
\* issue titled B, when the user adds the id-less line B and otherwise only
\* re-saves the text as it is: the event that finds the new line calls
\* createIssue once, once it has settled the line of B carries the id of the
\* remote issue B, and no invocation of any other change event makes a
\* repository call or writes the note.
C2_OneCreateThenQuiet ==
  (scenario = "add1" /\ path = MainPath /\ Cardinality(UserEvents) <= 1) =>
    /\ \A e \in AddingEvents :
         /\ Cardinality(CallsIn(e, "createIssue")) <= 1
         /\ (Settled(e) /\ tasks[e].outcome = "applied") =>
              /\ Cardinality(CallsIn(e, "createIssue")) = 1
              /\ IndexByTitle(remoteIssues, <<"B">>) # 0
              /\ LineCarries(vault, <<"B">>,
                             remoteIssues[IndexByTitle(remoteIssues, <<"B">>)].id)
    /\ \A i \in TaskIds :
         tasks[i].ev \notin AddingEvents =>
           tasks[i].calls = <<>> /\ tasks[i].writes = 0

\* C3: the repository never holds two issues of the same title.
C3_NoDuplicateTitles ==
  \A j, k \in 1..Len(remoteIssues) :
    j # k => remoteIssues[j].title # remoteIssues[k].title

\* C4: after a single user save whose event adds two or more id-less issues
\* of distinct titles, once every handleNewIssue of the event is done, each
\* of these issues has its line in the note carrying its resolved id.
C4_AllIdsWrittenBack ==
  \A e \in UserEvents :
    LET added == {i \in OfEvent(e) : tasks[i].kind = "handleNewIssue"}
    IN (/\ edits = 1
        /\ Cardinality(added) >= 2
        /\ \A i, j \in added : i # j => tasks[i].issue.title # tasks[j].issue.title
        /\ \A i \in added : tasks[i].pc = "done")
       => \A i \in added : LineCarries(vault, tasks[i].issue.title, tasks[i].issue.id)

\* every call the invocations of event e have made
EventCalls(e) ==
  {<<i, k>> \in OfEvent(e) \X (1..MaxTasks * 4) : k <= Len(tasks[i].calls)}
WithoutLine(text, k) == SubSeq(text, 1, k - 1) \o SubSeq(text, k + 1, Len(text))
\* text is prev with line k, the line of an issue with an id, taken out
LineRemoved(prev, text, k) ==
  /\ k \in 1..Len(prev)
  /\ text = WithoutLine(prev, k)
  /\ IsIssueLine(prev[k])
  /\ Truthy(IssueOfLine(prev[k]).id)
\* event e has diffed a text from which only line k of the baseline is gone,
\* and its apply step (valid repo, access token) has run to the end
RemovalEvent(e, k) ==
  /\ tasks[e].prev # <<>>
  /\ LineRemoved(tasks[e].prev, tasks[e].text, k)
  /\ tasks[e].outcome = "applied"
  /\ Settled(e)
\* the calls of event e are one hideIssue(id) and nothing else
OnlyHides(e, id) ==
  /\ Cardinality(EventCalls(e)) = 1
  /\ \A c \in EventCalls(e) :
       tasks[c[1]].calls[c[2]].method = "hideIssue" /\ tasks[c[1]].calls[c[2]].id = id

LeavesNothingElse(e, k) ==
  LET prev == tasks[e].prev
      text == tasks[e].text
      name == FileName(path)
      issues == getIssues(text, name)
      project == getTrackedProject(text, name)
  IN /\ \A j \in 1..Len(issues) : Truthy(issues[j].id)
     /\ ~(project.present /\ ~Truthy(project.id))
     /\ k = Len(prev) \/ ~(prev[k + 1] = <<>> \/ IsWs(prev[k + 1][1]))
     /\ \A j \in 1..Len(issues) : issues[j].id # IssueOfLine(prev[k]).id

NewIssueTasks == {i \in TaskIds : tasks[i].kind = "handleNewIssue"}
CallsOf(t, m) == {k \in 1..Len(t.calls) : t.calls[k].method = m}
\* the local milestone id is set and differs from the one of the issue found
MilestoneDiffers(t) ==
  /\ Truthy(t.issue.milestoneId)
  /\ ~LooseEq(t.issue.milestoneId, t.calls[1].milestoneId)

\* handleNewIssue, as far as it has come: the first call is
\* fetchIssueByTitle(title); a found issue is adopted, never created, and
\* updated iff the milestone differs; otherwise one createIssue, whose id is
\* adopted; at the end setIdOnIssue has run
NewIssueFlow(i) ==
  LET t == tasks[i]
      c == t.calls
  IN /\ t.pc = "fetchIssue" => c = <<>>
     /\ t.pc # "fetchIssue" =>
          /\ c # <<>>
          /\ c[1].method = "fetchIssueByTitle" /\ c[1].title = t.issue.title
          /\ CallsOf(t, "fetchIssueByTitle") = {1}
     /\ (c # <<>> /\ c[1].found) =>
          /\ CallsOf(t, "createIssue") = {}
          /\ t.issue.id = c[1].id
          /\ t.pc # "linkIssue" =>
               IF MilestoneDiffers(t)
                 THEN CallsOf(t, "updateIssue") = {2} /\ c[2].id = c[1].id
                 ELSE CallsOf(t, "updateIssue") = {}
     /\ (c # <<>> /\ ~c[1].found) =>
          /\ CallsOf(t, "updateIssue") = {}
          /\ t.pc = "createIssue" => CallsOf(t, "createIssue") = {}
          /\ t.pc # "createIssue" =>
               /\ CallsOf(t, "createIssue") = {2}
               /\ t.issue.id = c[2].id /\ c[2].title = t.issue.title
               /\ \E k \in 1..Len(remoteIssues) :
                    remoteIssues[k].id = t.issue.id
                    /\ remoteIssues[k].title = t.issue.title
     /\ t.pc = "done" =>
          \/ t.outcome = "id set" /\ t.writes = 1
          \/ t.outcome = "line not found" /\ t.writes = 0

\* the text has an issue line of this title that carries no id
HasIdLessLine(text, title) ==
  \E k \in 1..Len(text) :
    /\ IsIssueLine(text[k])
    /\ IssueOfLine(text[k]).title = title
    /\ ~Truthy(IssueOfLine(text[k]).id)

\* the write-back: a note with an id-less line of the title is written, and
\* the text written carries the adopted id on a line of that title
IdWriteBack(i) ==
  /\ (tasks[i].pc = "setIdRead" /\ tasks'[i].pc # "setIdRead"
        /\ HasIdLessLine(vault, tasks[i].issue.title))
       => tasks'[i].pc = "setIdWrite"
  /\ (tasks[i].pc = "setIdWrite" /\ tasks'[i].pc # "setIdWrite")
       => /\ tasks'[i].pc = "done"
          /\ LineCarries(vault', tasks[i].issue.title, tasks[i].issue.id)
          /\ vault' # tasks[i].text
          /\ Len(vault') = Len(tasks[i].text)

AnyAdded(t) ==
  t.issueDiff.added # <<>> \/ t.milestoneDiff.added # <<>> \/ t.projectDiff.added # <<>>

\* the step of event e from the read of the note to the diff and cache update
DiffStep(e) == tasks[e].pc = "read" /\ tasks'[e].pc = "repo"

\* C7: the step that diffs leaves noteCache without an entry for the path
\* when the issue, milestone or project diff has an added entity, and with
\* the current text as the entry otherwise.
C7_CacheUpdate ==
  [][\A e \in Events :
       DiffStep(e) =>
         IF AnyAdded(tasks'[e])
           THEN ~HasEntry(noteCache', path)
           ELSE HasEntry(noteCache', path) /\ noteCache'[path] = tasks'[e].text]_vars

\* the step in which event e, having passed the guard, reads the note
ReadStep(e) == tasks[e].pc = "read" /\ tasks'[e].pc # "read"

\* C8: an event that reads the note while noteCache has no entry for the path
\* stores the text as the entry and is done: it starts nothing, calls
\* nothing, writes nothing; and an event that ended so never has further
\* invocations.
C8_FirstObservation ==
  /\ [][\A e \in Events :
          (ReadStep(e) /\ ~HasEntry(noteCache, path)) =>
            /\ HasEntry(noteCache', path) /\ noteCache'[path] = vault
            /\ tasks' = [tasks EXCEPT ![e] = Done([tasks[e] EXCEPT !.text = vault],
                                                  "first")]
            /\ UNCHANGED <<vault, issueCache, remoteIssues, remoteMilestones,
                           remoteProjects>>]_vars
  /\ [](\A e \in Events :
          tasks[e].outcome = "first" =>
            /\ OfEvent(e) = {e}
            /\ tasks[e].calls = <<>> /\ tasks[e].writes = 0)

\* a first observation of a text that holds an id-less issue line: the text
\* is the cache entry, nothing was called or started
C8_Witness ==
  \E e \in Events :
    /\ tasks[e].outcome = "first"
    /\ HasIdLessLine(tasks[e].text, <<"B">>)
    /\ HasEntry(noteCache, path) /\ noteCache[path] = tasks[e].text
    /\ OfEvent(e) = {e}

\* mission.repo has the form org/repo: /^([^/]+)\/(.+)$/
HasRepoForm(v) ==
  LET s == Str(v)
      i == IndexOf(s, <<"/">>, 0)
  IN Truthy(v) /\ i > 0 /\ i + 1 < Len(s)

\* C9: an event that reads, against a cached baseline, a text that declares
\* mission.type and whose mission.repo is absent or not of the form org/repo
\* removes the cache entry, starts the write of the placeholder repo
\* property, and is done without a diff and without a repository call.
C9_RepoMissing ==
  [][\A e \in Events :
       (/\ ReadStep(e) /\ HasPrev(noteCache, path)
        /\ Truthy(getTrackedType(vault))
        /\ ~HasRepoForm(Property(vault, PROPERTY_REPO)))
       => /\ ~HasEntry(noteCache', path)
          /\ tasks'[e].pc = "done" /\ tasks'[e].calls = <<>>
          /\ ~AnyAdded(tasks'[e]) /\ tasks'[e].prev = <<>>
          /\ Len(tasks') = Len(tasks) + 1
          /\ tasks'[Len(tasks')].kind = "setProperty"
          /\ tasks'[Len(tasks')].props =
               <<[k |-> PROPERTY_REPO, v |-> REPO_PLACEHOLDER]>>]_vars

\* the path lies under a directory of this name, at any depth
UnderDirectory(p, dir) ==
  StartsWith(p, dir \o <<"/">>) \/ IndexOf(p, <<"/">> \o dir \o <<"/">>, 0) # -1
DotObsidian == <<".", "o", "b", "s", "i", "d", "i", "a", "n">>
DotGit == <<".", "g", "i", "t">>
\* the events the guard is to ignore
Ignorable ==
  \/ ~EndsWith(path, MdExt)
  \/ UnderDirectory(path, DotObsidian)
  \/ UnderDirectory(path, DotGit)
  \/ ~autoSync

\* C10: in a run whose change events are all to be ignored (the path does
\* not end in .md, or lies under .obsidian/ or .git/, or autoSync is off)
\* noteCache and the entity cache stay as they were, no invocation calls
\* the repository or writes the note, and the repository is not touched.
C10_Guard ==
  Ignorable =>
    /\ \A i \in TaskIds : tasks[i].calls = <<>> /\ tasks[i].writes = 0
    /\ noteCache = InitialNoteCache(scenario, path)
    /\ issueCache = InitialIssueCache(scenario, path)
    /\ remoteIssues = ScenarioOf(scenario).issues
    /\ remoteMilestones = ScenarioOf(scenario).milestones
    /\ remoteProjects = ScenarioOf(scenario).projects

-----------------------------------------------------------------------------
(* The diff engine on its own: issuesDiff, milestoneDiff and projectDiff of  *)
(* two snapshots of a note                                                   *)

\* the snapshots the diffs are taken of
DiffTexts ==
  { Tracked(<<>>), Tracked(<<LineA>>), Tracked(<<LineAClosed>>),
    Tracked(<<LineA, LineDesc>>), Tracked(<<LineA, LineB>>),
    Tracked(<<LineAClosed, LineB>>), Tracked(<<LineB, LineA>>),
    Tracked(<<LineB, LineC>>), Tracked(<<LineA, LineZ>>), Tracked(<<LineZ, LineA>>),
    Tracked(<<LineD, LineA>>), Tracked(<<LineA, LineD>>),
    MilestoneNote(<<LineRepo>>, LineHeadEdited, <<LineA>>), PlainNote,
    ProjectNote(<<>>, LineHead), ProjectNote(<<>>, LineHeadEdited),
    ProjectNote(<<LineProjectId>>, LineHead),
    ProjectNote(<<LineProjectId>>, LineHeadEdited) }

\* prevNote holds one snapshot and currentNote the other
InitDiff ==
  /\ scenario = "diff"
  /\ path = MainPath
  /\ autoSync = TRUE
  /\ accessToken = TRUE
  /\ vault \in DiffTexts
  /\ \E before \in DiffTexts : noteCache = CachePut(EmptyCache, path, before)
  /\ issueCache = <<>>
  /\ remoteIssues = <<>>
  /\ remoteMilestones = <<>>
  /\ remoteProjects = <<>>
  /\ tasks = <<>>
  /\ edits = 0

\* the three diffs of onChanged, taken of the two snapshots
DiffSnapshots ==
  LET before == noteCache[path]
      after == vault
      name == FileName(path)
  IN /\ tasks = <<>>
     /\ tasks' = <<[Done(Task("diff", "diff", 1, "user"), "diffed") EXCEPT
                      !.prev = before, !.text = after,
                      !.issueDiff = issuesDiff(getIssues(before, name),
                                               getIssues(after, name)),
                      !.milestoneDiff =
                        milestoneDiff(getTrackedMilestone(before, name),
                                      getTrackedMilestone(after, name)),
                      !.projectDiff =
                        projectDiff(getTrackedProject(before, name),
                                    getTrackedProject(after, name))]>>
     /\ UNCHANGED <<path, vault, noteCache, issueCache, remoteIssues,
                    remoteMilestones, remoteProjects, autoSync, accessToken,
                    scenario, edits>>

NextDiff == DiffSnapshots

SpecDiff == InitDiff /\ [][NextDiff]_vars

-----------------------------------------------------------------------------
(* Properties of the diffs *)

Diffed == tasks # <<>> /\ tasks[1].kind = "diff"
BeforeIssues == getIssues(tasks[1].prev, FileName(path))
AfterIssues == getIssues(tasks[1].text, FileName(path))
IdsOf(issues) == {issues[k].id : k \in 1..Len(issues)}
\* the first issue of the list that bears the id
FirstWith(issues, id) ==
  issues[CHOOSE k \in 1..Len(issues) :
           issues[k].id = id /\ \A j \in 1..k - 1 : issues[j].id # id]
LacksId(a) == a.id = UNDEF \/ a.id = <<>>
DiffersFromBefore(a) ==
  ~LacksId(a) /\ a.id \in IdsOf(BeforeIssues) /\ FirstWith(BeforeIssues, a.id) # a
ChangedPairs ==
  LET sel == SelectSeq(AfterIssues, DiffersFromBefore)
  IN [k \in 1..Len(sel) |->
        [before |-> FirstWith(BeforeIssues, sel[k].id), after |-> sel[k]]]

\* C11: added is the after-issues lacking an id, removed is the before-issues
\* whose id is on no after-issue, changed is the pairs of an after-issue with
\* an id and the (first) before-issue of that id when the two differ in a
\* field; added and changed in the order of after, removed in that of before.
C11_IssueDiff ==
  Diffed =>
    /\ tasks[1].issueDiff.added = SelectSeq(AfterIssues, LacksId)
    /\ tasks[1].issueDiff.removed =
         SelectSeq(BeforeIssues, LAMBDA b : b.id \notin IdsOf(AfterIssues))
    /\ tasks[1].issueDiff.changed = ChangedPairs

\* before = [A open (1)], after = [A closed (1), B]: added = [B], removed = [],
\* changed = [(A open, A closed)]
C11_Witness ==
  /\ Diffed
  /\ tasks[1].prev = Tracked(<<LineA>>)
  /\ tasks[1].text = Tracked(<<LineAClosed, LineB>>)
  /\ Len(tasks[1].issueDiff.added) = 1
  /\ tasks[1].issueDiff.added[1].title = <<"B">>
  /\ tasks[1].issueDiff.removed = <<>>
  /\ Len(tasks[1].issueDiff.changed) = 1
  /\ tasks[1].issueDiff.changed[1].before.status = "open"
  /\ tasks[1].issueDiff.changed[1].after.status = "closed"

BeforeMilestone == getTrackedMilestone(tasks[1].prev, FileName(path))
AfterMilestone == getTrackedMilestone(tasks[1].text, FileName(path))
BeforeProject == getTrackedProject(tasks[1].prev, FileName(path))
AfterProject == getTrackedProject(tasks[1].text, FileName(path))
NonEmptyBuckets(d) ==
  {b \in {"added", "removed", "changed"} : d[b] # <<>>}
EntityDiffAsStated(d, b, a) ==
  /\ d.added # <<>> <=> ~b.present /\ a.present
  /\ d.removed # <<>> <=> b.present /\ ~a.present
  /\ d.changed # <<>> <=> b.present /\ a.present /\ b # a
  /\ Len(d.added) <= 1 /\ Len(d.removed) <= 1 /\ Len(d.changed) <= 1
  /\ Cardinality(NonEmptyBuckets(d)) <= 1

\* C12: for the milestone and for the project alike, added iff absent before
\* and present after, removed iff present before and absent after, changed
\* iff present in both and not field-equal; at most one entry, in at most
\* one bucket.
C12_EntityDiffs ==
  Diffed =>
    /\ EntityDiffAsStated(tasks[1].milestoneDiff, BeforeMilestone, AfterMilestone)
    /\ EntityDiffAsStated(tasks[1].projectDiff, BeforeProject, AfterProject)

\* C13: a snapshot diffed against itself has empty added, removed and changed
\* buckets for issues, milestone and project.
C13_SelfDiffEmpty ==
  Diffed /\ tasks[1].prev = tasks[1].text =>
    /\ tasks[1].issueDiff = NoDiff
    /\ tasks[1].milestoneDiff = NoDiff
    /\ tasks[1].projectDiff = NoDiff

-----------------------------------------------------------------------------
(* Properties of the apply step *)

\* the invocation i leaves its program point p in this step
Leaves(i, p) ==
  /\ i \in TaskIds /\ Len(tasks') >= i
  /\ tasks[i].pc = p /\ tasks'[i].pc # p
\* the repository holds the issue the invocation is about
RemoteHolds(i) == IndexById(remoteIssues, tasks[i].issue.id) # 0
HasMethod(t, m) == \E k \in 1..Len(t.calls) : t.calls[k].method = m
\* every removed and every changed issue of an applied event has its operation
OperationsStarted(e) ==
  LET t == tasks[e]
  IN /\ \A k \in 1..Len(t.issueDiff.removed) :
          \E i \in OfEvent(e) : /\ tasks[i].kind = "hideIssue"
                                /\ tasks[i].issue = t.issueDiff.removed[k]
     /\ \A k \in 1..Len(t.issueDiff.changed) :
          \E i \in OfEvent(e) : /\ tasks[i].kind = "updateIssue"
                                /\ tasks[i].issue = t.issueDiff.changed[k].after
HiddenAndForgotten(i) ==
  Leaves(i, "hideIssue") /\ RemoteHolds(i) =>
    /\ tasks'[i].pc = "done"
    /\ HasMethod(tasks'[i], "hideIssue")
    /\ HiddenIssue(remoteIssues[IndexById(remoteIssues, tasks[i].issue.id)])
         = remoteIssues'[IndexById(remoteIssues, tasks[i].issue.id)]
    /\ CacheIndex(issueCache', tasks[i].issue.id) = 0
UpdatedAndRefreshed(i) ==
  Leaves(i, "updateIssue") /\ tasks[i].kind = "updateIssue" /\ RemoteHolds(i) =>
    /\ tasks'[i].pc = "done"
    /\ HasMethod(tasks'[i], "updateIssue")
    /\ remoteIssues'[IndexById(remoteIssues, tasks[i].issue.id)].status
         = tasks[i].issue.status
    /\ CacheIndex(issueCache', tasks[i].issue.id) # 0
    /\ issueCache'[CacheIndex(issueCache', tasks[i].issue.id)] = tasks[i].issue

\* C14: every removed issue gets hideIssue(i) and leaves the entity cache,
\* every changed issue gets updateIssue with the after-values and its cache
\* entry becomes the after-issue; the operation ends without error whether
\* or not the entity cache held the id before.
C14_RemovedAndChangedApplied ==
  /\ [](\A e \in Events : tasks[e].outcome = "applied" => OperationsStarted(e))
  /\ [][\A i \in 1..MaxTasks : HiddenAndForgotten(i) /\ UpdatedAndRefreshed(i)]_vars

\* the note from its first heading on
FromFirstHeading(text) ==
  IF FirstHeading(text, 1) = 0 THEN <<>>
  ELSE SubSeq(text, FirstHeading(text, 1), Len(text))
KindOfEntity(t) == IF t.kind = "handleNewProject" THEN TypeProject ELSE TypeMilestone
WrittenBack(i) ==
  Leaves(i, "headWrite") =>
    /\ getTrackedType(vault') = KindOfEntity(tasks[i])
    /\ Str(getTrackedId(vault')) = Str(tasks[i].entity.id)
    /\ getHeadSection(vault') = HeadContent(tasks[i].entity)
    /\ FromFirstHeading(vault') = FromFirstHeading(vault)

\* C15: when the last write of a handled new milestone or project is done,
\* the front matter holds mission.type of the entity kind and mission.id of
\* the resolved id, the head section is the entity's description, and the
\* text from the first heading on is as it was.
C15_NewEntityWrittenBack ==
  [][\A i \in 1..MaxTasks : WrittenBack(i)]_vars

\* the invocations of kind k that event e started
Started(e, k) == {i \in OfEvent(e) : tasks[i].kind = k}
OneUpdateMilestone(e) ==
  LET d == tasks[e].milestoneDiff
  IN IF d.changed = <<>> THEN Started(e, "updateMilestone") = {}
     ELSE /\ Cardinality(Started(e, "updateMilestone")) = 1
          /\ \A i \in Started(e, "updateMilestone") :
               /\ tasks[i].entity = d.changed[1].after
               /\ Finished(tasks[i]) =>
                    /\ Len(tasks[i].calls) = 1
                    /\ tasks[i].calls[1].method = "updateMilestone"
                    /\ tasks[i].calls[1].title = d.changed[1].after.title
                    /\ tasks[i].calls[1].id = d.changed[1].after.id
UpdateProjectOnlyWithId(e) ==
  LET d == tasks[e].projectDiff
  IN IF d.changed # <<>> /\ Truthy(d.changed[1].after.id)
       THEN /\ Cardinality(Started(e, "updateProject")) = 1
            /\ \A i \in Started(e, "updateProject") :
                 tasks[i].entity = d.changed[1].after
       ELSE Started(e, "updateProject") = {}
NoIdLessUpdateProject ==
  \A i \in TaskIds : \A k \in 1..Len(tasks[i].calls) :
    tasks[i].calls[k].method = "updateProject" => Truthy(tasks[i].calls[k].id)

\* C16: an applied event with a changed milestone makes exactly one
\* updateMilestone call, with the after-values; it starts updateProject for
\* a changed project only when the after-project has an id, and no
\* updateProject call ever carries a project without id.
C16_ChangedEntitiesPushed ==
  /\ NoIdLessUpdateProject
  /\ \A e \in Events : tasks[e].outcome = "applied" =>
       OneUpdateMilestone(e) /\ UpdateProjectOnlyWithId(e)

\* a settled event whose changed project lost its id: nothing was pushed
C16_Witness ==
  \E e \in Events :
    /\ tasks[e].outcome = "applied" /\ Settled(e)
    /\ tasks[e].projectDiff.changed # <<>>
    /\ ~Truthy(tasks[e].projectDiff.changed[1].after.id)
    /\ \A i \in OfEvent(e) : tasks[i].calls = <<>>

-----------------------------------------------------------------------------
(* The commands: Update Milestone and Create Milestone on the active note *)

Commands == {"updateMilestoneCommand", "createMilestoneCommand", "fetchIssuesCommand"}
\* the commands run in one behaviour
MaxCommands == 1

\* a command is invoked.  this.issueRepo throws at once without an access
\* token: updateMilestone rejects; createMilestone catches, starts
\* note.setProperty(PROPERTY_REPO, REPO_PLACEHOLDER) and returns
PlaceholderTask(e) ==
  [Task("setProperty", "properties", e, "command")
     EXCEPT !.props = <<[k |-> PROPERTY_REPO, v |-> REPO_PLACEHOLDER]>>]
NoIssueRepo(ts, i, reason) ==
  IF ts[i].kind = "createMilestoneCommand"
    THEN Append([ts EXCEPT ![i] = Done(@, reason)], PlaceholderTask(ts[i].ev))
    ELSE [ts EXCEPT ![i] = Failed(@, reason)]
RunCommand(c) ==
  LET e == Len(tasks) + 1
      started == Append(tasks, Task(c, "issueRepo", e, "command"))
  IN /\ c \in Commands
     /\ edits < MaxEdits
     /\ Len(SelectSeq(tasks, LAMBDA t : t.kind \in Commands)) < MaxCommands
     /\ tasks' = IF accessToken THEN started
                 ELSE NoIssueRepo(started, e, "no access token")
     /\ Len(tasks') <= TaskBound
     /\ edits' = edits + 1
     /\ UNCHANGED <<path, vault, noteCache, issueCache, remoteIssues,
                    remoteMilestones, remoteProjects, autoSync, accessToken,
                    scenario>>

\* this.issueRepo: new AppNote(this.app).getRepo() has read the note
IssueRepo(i) ==
  LET t == tasks[i]
  IN /\ t.kind \in Commands /\ t.pc = "issueRepo"
     /\ tasks' = IF getRepo(vault).ok
                   THEN [tasks EXCEPT ![i] = [t EXCEPT !.pc = "trackedId"]]
                   ELSE NoIssueRepo(tasks, i, "no repo")
     /\ Len(tasks') <= TaskBound
     /\ UNCHANGED <<path, vault, noteCache, issueCache, remoteIssues,
                    remoteMilestones, remoteProjects, autoSync, accessToken,
                    scenario, edits>>

\* updateMilestone without its check of the tracked id, what C20 must tell
\* apart
TrackedIdUnchecked(i) ==
  LET t == tasks[i]
      id == getTrackedId(vault)
  IN /\ t.kind \in Commands /\ t.pc = "trackedId"
     /\ tasks' = [tasks EXCEPT ![i] =
          IF t.kind = "createMilestoneCommand" THEN [t EXCEPT !.pc = "fetchMilestones"]
          ELSE IF t.kind = "updateMilestoneCommand" THEN [t EXCEPT !.pc = "getIssues"]
          ELSE IF ~Truthy(id) THEN Failed(t, "no tracked ID found in note")
          ELSE [t EXCEPT !.pc = "trackedType", !.entity.id = id]]
     /\ UNCHANGED <<path, vault, noteCache, issueCache, remoteIssues,
                    remoteMilestones, remoteProjects, autoSync, accessToken,
                    scenario, edits>>

\* note.getTrackedId() has read the note
TrackedId(i) ==
  LET t == tasks[i]
      id == getTrackedId(vault)
  IN /\ t.kind \in Commands /\ t.pc = "trackedId"
     /\ tasks' = [tasks EXCEPT ![i] =
          IF t.kind = "createMilestoneCommand" THEN [t EXCEPT !.pc = "fetchMilestones"]
          ELSE IF t.kind = "updateMilestoneCommand"
            THEN IF ~Truthy(id) THEN Failed(t, "no milestone ID found in note")
                 ELSE [t EXCEPT !.pc = "getIssues"]
          ELSE IF ~Truthy(id) THEN Failed(t, "no tracked ID found in note")
          ELSE [t EXCEPT !.pc = "trackedType", !.entity.id = id]]
     /\ UNCHANGED <<path, vault, noteCache, issueCache, remoteIssues,
                    remoteMilestones, remoteProjects, autoSync, accessToken,
                    scenario, edits>>

\* the issues of the note that have an id / have none, in order
WithId(issues) == SelectSeq(issues, LAMBDA i : Truthy(i.id))
\* the invocations a command (or event) e awaits, of one kind, in order
Children(ts, e, kind) ==
  SelectSeq([k \in 1..Len(ts) |-> k], LAMBDA k : ts[k].ev = e /\ ts[k].kind = kind)

\* updateMilestone: note.getIssues() has read the note; the first
\* Promise.all starts fetchIssueById for every issue with an id
GetIssues(i) ==
  LET t == tasks[i]
      issues == getIssues(vault, FileName(path))
  IN /\ t.kind = "updateMilestoneCommand" /\ t.pc = "getIssues"
     /\ tasks' = [tasks EXCEPT ![i] = [t EXCEPT !.pc = "awaitTitles", !.text = vault]]
                 \o IssueTasks("syncTitle", "fetchIssueById", t.ev, t.origin,
                               WithId(issues))
     /\ Len(tasks') <= TaskBound
     /\ UNCHANGED <<path, vault, noteCache, issueCache, remoteIssues,
                    remoteMilestones, remoteProjects, autoSync, accessToken,
                    scenario, edits>>

\* repo.fetchIssueById(i.id) answers; an unknown number is a rejected request
FetchIssueById(i) ==
  LET t == tasks[i]
      k == IndexById(remoteIssues, t.issue.id)
      called == Log(t, Call("fetchIssueById", t.issue.title, t.issue.id, UNDEF, k # 0))
  IN /\ t.kind = "syncTitle" /\ t.pc = "fetchIssueById"
     /\ tasks' = [tasks EXCEPT ![i] =
          IF k = 0 THEN Failed(called, "rejected")
          ELSE IF remoteIssues[k].title # t.issue.title
            THEN [called EXCEPT !.pc = "updateTitle"]
          ELSE Done(called, "same title")]
     /\ UNCHANGED <<path, vault, noteCache, issueCache, remoteIssues,
                    remoteMilestones, remoteProjects, autoSync, accessToken,
                    scenario, edits>>

\* repo.updateIssue(i) of an issue whose title differs
UpdateTitle(i) ==
  LET t == tasks[i]
      k == IndexById(remoteIssues, t.issue.id)
      called == [t EXCEPT !.calls = @ \o IssueCalls("updateIssue", t.issue)]
  IN /\ t.kind = "syncTitle" /\ t.pc = "updateTitle"
     /\ remoteIssues' = [remoteIssues EXCEPT ![k] = UpdatedIssue(@, t.issue)]
     /\ tasks' = [tasks EXCEPT ![i] = Done(called, "updated")]
     /\ UNCHANGED <<path, vault, noteCache, issueCache, remoteMilestones,
                    remoteProjects, autoSync, accessToken, scenario, edits>>

\* await Promise.all(...): settled when one invocation has failed or all
\* are done
AnyFailed(ts, ids) == \E k \in 1..Len(ids) : ts[ids[k]].pc = "failed"
AllDone(ts, ids) == \A k \in 1..Len(ids) : ts[ids[k]].pc = "done"
\* a join that waits for every invocation and swallows rejections, what C18
\* must tell apart
PromiseAllSettled(ts, ids) ==
  IF \A k \in 1..Len(ids) : Finished(ts[ids[k]]) THEN "fulfilled" ELSE "pending"
PromiseAll(ts, ids) ==
  IF AnyFailed(ts, ids) THEN "rejected"
  ELSE IF AllDone(ts, ids) THEN "fulfilled" ELSE "pending"

\* the first Promise.all of updateMilestone settles; the second starts
\* handleNewIssue for every issue without an id
AwaitTitles(i) ==
  LET t == tasks[i]
      all == PromiseAll(tasks, Children(tasks, t.ev, "syncTitle"))
      issues == getIssues(t.text, FileName(path))
  IN /\ t.kind = "updateMilestoneCommand" /\ t.pc = "awaitTitles"
     /\ all # "pending"
     /\ tasks' = IF all = "rejected" THEN [tasks EXCEPT ![i] = Failed(t, "rejected")]
                 ELSE [tasks EXCEPT ![i] = [t EXCEPT !.pc = "awaitNew"]]
                      \o IssueTasks("handleNewIssue", "fetchIssue", t.ev, t.origin,
                                    SelectIdLess(issues))
     /\ Len(tasks') <= TaskBound
     /\ UNCHANGED <<path, vault, noteCache, issueCache, remoteIssues,
                    remoteMilestones, remoteProjects, autoSync, accessToken,
                    scenario, edits>>

\* the issues as handleNewIssue has left them: each id-less issue bears the
\* id its invocation adopted
RECURSIVE Adopted(_, _, _)
Adopted(issues, ts, ids) ==
  IF issues = <<>> THEN <<>>
  ELSE IF Truthy(issues[1].id) \/ ids = <<>>
    THEN <<issues[1]>> \o Adopted(Tail(issues), ts, ids)
  ELSE <<ts[ids[1]].issue>> \o Adopted(Tail(issues), ts, Tail(ids))

\* the second Promise.all settles; this.issueCache.setAll(issues)
AwaitNew(i) ==
  LET t == tasks[i]
      ids == Children(tasks, t.ev, "handleNewIssue")
      all == PromiseAll(tasks, ids)
  IN /\ t.kind = "updateMilestoneCommand" /\ t.pc = "awaitNew"
     /\ all # "pending"
     /\ IF all = "rejected"
          THEN /\ tasks' = [tasks EXCEPT ![i] = Failed(t, "rejected")]
               /\ UNCHANGED issueCache
          ELSE /\ tasks' = [tasks EXCEPT ![i] = Done(t, "updated")]
               /\ issueCache' = Adopted(getIssues(t.text, FileName(path)), tasks, ids)
     /\ UNCHANGED <<path, vault, noteCache, remoteIssues, remoteMilestones,
                    remoteProjects, autoSync, accessToken, scenario, edits>>

-----------------------------------------------------------------------------
(* Create Milestone *)

\* note.setProperty(name, value), started by a command
SetPropertyTask(e, name, value) ==
  [Task("setProperty", "properties", e, "command")
     EXCEPT !.props = <<[k |-> name, v |-> value]>>]

\* repo.fetchMilestones() answers with the milestones held
FetchMilestones(i) ==
  LET t == tasks[i]
      called == Log(t, Call("fetchMilestones", UNDEF, UNDEF, UNDEF, TRUE))
  IN /\ t.kind = "createMilestoneCommand" /\ t.pc = "fetchMilestones"
     /\ tasks' = [tasks EXCEPT ![i] =
          [called EXCEPT !.pc = "trackedName", !.fetched = remoteMilestones]]
     /\ UNCHANGED <<path, vault, noteCache, issueCache, remoteIssues,
                    remoteMilestones, remoteProjects, autoSync, accessToken,
                    scenario, edits>>

\* note.getTrackedName() has read the note; a milestone of that title is
\* adopted and note.setProperty("mission.type", "milestone") starts
TrackedName(i) ==
  LET t == tasks[i]
      name == getTrackedName(vault, FileName(path))
      k == IndexByTitle(t.fetched, name)
  IN /\ t.kind = "createMilestoneCommand" /\ t.pc = "trackedName"
     /\ tasks' =
          IF k = 0
            THEN [tasks EXCEPT ![i] = [t EXCEPT !.pc = "createMilestone",
                                                !.entity.title = name]]
            ELSE Append([tasks EXCEPT ![i] =
                           [t EXCEPT !.pc = "awaitType", !.entity.title = name,
                                     !.entity.id = t.fetched[k].id]],
                        SetPropertyTask(t.ev, PROPERTY_TYPE, TypeMilestone))
     /\ Len(tasks') <= TaskBound
     /\ UNCHANGED <<path, vault, noteCache, issueCache, remoteIssues,
                    remoteMilestones, remoteProjects, autoSync, accessToken,
                    scenario, edits>>

\* repo.createMilestone({ title: milestoneName }) answers
CommandCreateMilestone(i) ==
  LET t == tasks[i]
      id == FreshId(remoteMilestones)
      called == Log(t, Call("createMilestone", t.entity.title, id, UNDEF, TRUE))
  IN /\ t.kind = "createMilestoneCommand" /\ t.pc = "createMilestone"
     /\ remoteMilestones' = Append(remoteMilestones,
                                   RemoteEntity(id, t.entity.title, UNDEF))
     /\ tasks' = Append([tasks EXCEPT ![i] =
                           [called EXCEPT !.pc = "awaitType", !.entity.id = id]],
                        SetPropertyTask(t.ev, PROPERTY_TYPE, TypeMilestone))
     /\ Len(tasks') <= TaskBound
     /\ UNCHANGED <<path, vault, noteCache, issueCache, remoteIssues,
                    remoteProjects, autoSync, accessToken, scenario, edits>>

\* await note.setProperty("mission.type", ...) returns;
\* note.setProperty("mission.id", milestoneId) starts
AwaitType(i) ==
  LET t == tasks[i]
  IN /\ t.kind = "createMilestoneCommand" /\ t.pc = "awaitType"
     /\ PromiseAll(tasks, Children(tasks, t.ev, "setProperty")) = "fulfilled"
     /\ tasks' = Append([tasks EXCEPT ![i] = [t EXCEPT !.pc = "awaitId"]],
                        SetPropertyTask(t.ev, PROPERTY_ID, t.entity.id))
     /\ Len(tasks') <= TaskBound
     /\ UNCHANGED <<path, vault, noteCache, issueCache, remoteIssues,
                    remoteMilestones, remoteProjects, autoSync, accessToken,
                    scenario, edits>>

\* await note.setProperty("mission.id", ...) returns, and the command with it
AwaitId(i) ==
  LET t == tasks[i]
  IN /\ t.kind = "createMilestoneCommand" /\ t.pc = "awaitId"
     /\ PromiseAll(tasks, Children(tasks, t.ev, "setProperty")) = "fulfilled"
     /\ tasks' = [tasks EXCEPT ![i] = Done(t, "created")]
     /\ UNCHANGED <<path, vault, noteCache, issueCache, remoteIssues,
                    remoteMilestones, remoteProjects, autoSync, accessToken,
                    scenario, edits>>

-----------------------------------------------------------------------------
(* Fetch Issues *)

SectionIssues == <<"I", "s", "s", "u", "e", "s">>
NoIssuesFound == <<"N", "o", " ", "i", "s", "s", "u", "e", "s", " ", "f", "o", "u", "n", "d", ".">>

\* fetchIssues without its check of the type, what C21 must tell apart: any
\* type other than "milestone" is fetched as a project
TrackedTypeUnchecked(i) ==
  LET t == tasks[i]
      type == getTrackedType(vault)
  IN /\ t.kind = "fetchIssuesCommand" /\ t.pc = "trackedType"
     /\ tasks' = [tasks EXCEPT ![i] =
          IF ~Truthy(type) THEN Failed(t, "no type set")
          ELSE IF type = TypeMilestone THEN [t EXCEPT !.pc = "fetchIssuesInMilestone"]
          ELSE [t EXCEPT !.pc = "fetchIssuesInProject"]]
     /\ UNCHANGED <<path, vault, noteCache, issueCache, remoteIssues,
                    remoteMilestones, remoteProjects, autoSync, accessToken,
                    scenario, edits>>

\* note.getTrackedType() has read the note
TrackedType(i) ==
  LET t == tasks[i]
      type == getTrackedType(vault)
  IN /\ t.kind = "fetchIssuesCommand" /\ t.pc = "trackedType"
     /\ tasks' = [tasks EXCEPT ![i] =
          IF ~Truthy(type) THEN Failed(t, "no type set")
          ELSE IF type = TypeMilestone THEN [t EXCEPT !.pc = "fetchIssuesInMilestone"]
          ELSE IF type = TypeProject THEN [t EXCEPT !.pc = "fetchIssuesInProject"]
          ELSE Failed(t, "unknown type set")]
     /\ UNCHANGED <<path, vault, noteCache, issueCache, remoteIssues,
                    remoteMilestones, remoteProjects, autoSync, accessToken,
                    scenario, edits>>

\* toIssue and projectItemToIssue: what the repository's answer carries
toIssue(r) == [r EXCEPT !.projectId = UNDEF]
projectItemToIssue(r) ==
  [r EXCEPT !.status = "undefined", !.statusReason = "undefined",
            !.milestoneId = UNDEF, !.projectId = UNDEF]
Each(s, Op(_)) == [k \in 1..Len(s) |-> Op(s[k])]

\* Github.fetchIssuesInMilestone(milestoneId)
fetchIssuesInMilestone(held, milestoneId) ==
  SelectSeq(Each(SelectSeq(held, LAMBDA r : r.milestoneId = Str(milestoneId)), toIssue),
            LAMBDA i : i.statusReason # "not_planned")
\* Github.fetchIssuesInProject(id), of a project the repository holds
fetchIssuesInProject(held, id) ==
  Each(SelectSeq(held, LAMBDA r : r.projectId = Str(id)), projectItemToIssue)

\* issues.sort((a, b) => -(a.status ?? "open").localeCompare(b.status ?? "open")):
\* a stable sort that puts "closed" last
SortByStatus(issues) ==
  SelectSeq(issues, LAMBDA i : i.status # "closed")
  \o SelectSeq(issues, LAMBDA i : i.status = "closed")

\* lodash compact(parts).join(" "): the falsy parts are left out
RECURSIVE CompactJoin(_)
CompactJoin(parts) ==
  IF parts = <<>> THEN <<>>
  ELSE LET rest == CompactJoin(Tail(parts))
       IN IF ~Truthy(parts[1]) THEN rest
          ELSE IF rest = <<>> THEN Str(parts[1])
          ELSE Str(parts[1]) \o <<" ">> \o rest

\* toListItem(i), as lines: the template `(${i.id})` is never falsy, and a
\* description is added behind "\n\t- " as it is
toListItem(i) ==
  LET checkbox == IF i.status = "closed" THEN <<"[", "x", "]">> ELSE <<"[", " ", "]">>
      md == CompactJoin(<<<<"-">>, checkbox, i.title,
                          <<"(">> \o Str(i.id) \o <<")">>>>)
  IN Split(IF Truthy(i.description)
             THEN md \o <<NL, "\t", "-", " ">> \o i.description
             ELSE md)

\* issues.map(toListItem).join("\n"), or "No issues found."
RECURSIVE ListItems(_)
ListItems(issues) ==
  IF issues = <<>> THEN <<>> ELSE toListItem(issues[1]) \o ListItems(Tail(issues))
IssuesMarkdown(issues) ==
  IF issues = <<>> THEN <<NoIssuesFound>> ELSE ListItems(issues)

\* content.replace(/\n+$/, "")
RECURSIVE StripNewlines(_)
StripNewlines(ls) ==
  IF Len(ls) > 1 /\ ls[Len(ls)] = <<>> THEN StripNewlines(Take(ls, Len(ls) - 1)) ELSE ls

\* new RegExp(`^## ${heading}$`, "m"): the first line that is the heading; 0
\* when none
RECURSIVE SectionHeading(_, _, _)
SectionHeading(ls, heading, from) ==
  IF from > Len(ls) THEN 0
  ELSE IF ls[from] = <<"#", "#", " ">> \o heading THEN from
  ELSE SectionHeading(ls, heading, from + 1)

\* writeSection(heading, content): the text it writes, given the text read
writeSection(text, heading, content) ==
  LET h == SectionHeading(text, heading, 1)
  IN IF h # 0 THEN Take(text, h) \o <<<<>>>> \o content \o <<<<>>, <<>>>>
     ELSE StripNewlines(text) \o <<<<>>, <<"#", "#", " ">> \o heading, <<>>>> \o content

\* the repository answers; this.issueCache.setAll(issues), the sort in
\* place, delete this.noteCache[note.filePath], and writeSection starts
FetchIssuesIn(i) ==
  LET t == tasks[i]
      project == IndexById(remoteProjects, t.entity.id)
      issues == IF t.pc = "fetchIssuesInMilestone"
                  THEN fetchIssuesInMilestone(remoteIssues, t.entity.id)
                  ELSE fetchIssuesInProject(remoteIssues, t.entity.id)
      called == Log(t, Call(t.pc, UNDEF, t.entity.id, UNDEF,
                            t.pc = "fetchIssuesInMilestone" \/ project # 0))
  IN /\ t.kind = "fetchIssuesCommand"
     /\ t.pc \in {"fetchIssuesInMilestone", "fetchIssuesInProject"}
     /\ IF t.pc = "fetchIssuesInProject" /\ project = 0
          THEN /\ tasks' = [tasks EXCEPT ![i] = Failed(called, "rejected")]
               /\ UNCHANGED <<issueCache, noteCache>>
          ELSE /\ tasks' = [tasks EXCEPT ![i] =
                    [called EXCEPT !.pc = "sectionRead",
                                   !.fetched = SortByStatus(issues)]]
               /\ issueCache' = SortByStatus(issues)
               /\ noteCache' = CacheDelete(noteCache, path)
     /\ UNCHANGED <<path, vault, remoteIssues, remoteMilestones, remoteProjects,
                    autoSync, accessToken, scenario, edits>>

\* writeSection has read the note
SectionRead(i) ==
  LET t == tasks[i]
  IN /\ t.kind = "fetchIssuesCommand" /\ t.pc = "sectionRead"
     /\ tasks' = [tasks EXCEPT ![i] = [t EXCEPT !.pc = "sectionWrite", !.text = vault]]
     /\ UNCHANGED <<path, vault, noteCache, issueCache, remoteIssues,
                    remoteMilestones, remoteProjects, autoSync, accessToken,
                    scenario, edits>>

\* writeSection writes, and the command returns
SectionWrite(i) ==
  LET t == tasks[i]
  IN /\ t.kind = "fetchIssuesCommand" /\ t.pc = "sectionWrite"
     /\ vault' = writeSection(t.text, SectionIssues, IssuesMarkdown(t.fetched))
     /\ tasks' = Written(tasks, i, Done(t, "fetched"))
     /\ Len(tasks') <= TaskBound
     /\ UNCHANGED <<path, noteCache, issueCache, remoteIssues, remoteMilestones,
                    remoteProjects, autoSync, accessToken, scenario, edits>>

-----------------------------------------------------------------------------
(* The plugin with its commands: the user saves the note or runs a command *)

CommandRuns == {s.name : s \in CommandScenarios} \cup {"indent", "milestone", "ghost"}

InitCommands ==
  /\ scenario \in CommandRuns
  /\ path = MainPath
  /\ autoSync \in BOOLEAN
  /\ accessToken \in BOOLEAN
  /\ vault = ScenarioOf(scenario).base
  /\ noteCache = InitialNoteCache(scenario, path)
  /\ issueCache = InitialIssueCache(scenario, path)
  /\ remoteIssues = ScenarioOf(scenario).issues
  /\ remoteMilestones = ScenarioOf(scenario).milestones
  /\ remoteProjects = ScenarioOf(scenario).projects
  /\ tasks = <<>>
  /\ edits = 0

NextCommands ==
  \/ \E text \in Saves : UserEdit(text)
  \/ \E c \in Commands : RunCommand(c)
  \/ \E i \in 1..Len(tasks) : IssueRepo(i)
  \/ \E i \in 1..Len(tasks) : TrackedId(i)
  \/ \E i \in 1..Len(tasks) : GetIssues(i)
  \/ \E i \in 1..Len(tasks) : FetchIssueById(i)
  \/ \E i \in 1..Len(tasks) : UpdateTitle(i)
  \/ \E i \in 1..Len(tasks) : AwaitTitles(i)
  \/ \E i \in 1..Len(tasks) : AwaitNew(i)
  \/ \E i \in 1..Len(tasks) : FetchMilestones(i)
  \/ \E i \in 1..Len(tasks) : TrackedName(i)
  \/ \E i \in 1..Len(tasks) : CommandCreateMilestone(i)
  \/ \E i \in 1..Len(tasks) : AwaitType(i)
  \/ \E i \in 1..Len(tasks) : AwaitId(i)
  \/ \E i \in 1..Len(tasks) : TrackedType(i)
  \/ \E i \in 1..Len(tasks) : FetchIssuesIn(i)
  \/ \E i \in 1..Len(tasks) : SectionRead(i)
  \/ \E i \in 1..Len(tasks) : SectionWrite(i)
  \/ \E i \in 1..Len(tasks) : OnChangedRead(i)
  \/ \E i \in 1..Len(tasks) : OnChangedApply(i)
  \/ \E i \in 1..Len(tasks) : FetchIssueByTitle(i)
  \/ \E i \in 1..Len(tasks) : CreateIssue(i)
  \/ \E i \in 1..Len(tasks) : SetIdRead(i)
  \/ \E i \in 1..Len(tasks) : SetIdWrite(i)
  \/ \E i \in 1..Len(tasks) : HideIssue(i)
  \/ \E i \in 1..Len(tasks) : UpdateIssue(i)
  \/ \E i \in 1..Len(tasks) : FetchMilestoneByTitle(i)
  \/ \E i \in 1..Len(tasks) : CreateMilestone(i)
  \/ \E i \in 1..Len(tasks) : SetPropertiesRead(i)
  \/ \E i \in 1..Len(tasks) : SetPropertiesWrite(i)
  \/ \E i \in 1..Len(tasks) : SetHeadSectionRead(i)
  \/ \E i \in 1..Len(tasks) : SetHeadSectionWrite(i)

SpecCommands == InitCommands /\ [][NextCommands]_vars

-----------------------------------------------------------------------------
(* Properties of the error handling *)

\* the invocations an event or a command awaits
Awaited(e) == {i \in OfEvent(e) : i # e /\ tasks[i].kind # "onChanged"}
LineNotFound(i) == tasks[i].kind = "handleNewIssue" /\ tasks[i].outcome = "line not found"

\* the step in which setIdOnIssue finds no line for the title of task i
NoLineStep(i) ==
  /\ i <= Len(tasks) /\ tasks[i].kind = "handleNewIssue" /\ tasks[i].pc = "setIdRead"
  /\ tasks'[i].pc # "setIdRead"
  /\ ~setIdOnIssue(vault, tasks[i].issue.title, tasks[i].issue.id).found

\* the next step of a create/link, hide, update or title operation is possible
CanStep(i) ==
  ENABLED (\/ FetchIssueByTitle(i) \/ CreateIssue(i) \/ LinkIssue(i) \/ SetIdRead(i)
           \/ HideIssue(i) \/ UpdateIssue(i) \/ FetchIssueById(i) \/ UpdateTitle(i))

\* C17: when setIdOnIssue finds no line for the title of an added issue, the
\* step ends the handleNewIssue invocation without an error, adds the issue
\* (with its id) to the entity cache and leaves every other invocation as it
\* was; a command fails only if an invocation it awaits has failed, and the
\* unfinished sibling operations of the same event or command can still
\* take their next step
C17_IdPlacementFailureCaught ==
  /\ [][\A i \in 1..MaxTasks : NoLineStep(i) =>
          /\ tasks'[i].pc = "done" /\ tasks'[i].outcome = "line not found"
          /\ Truthy(tasks'[i].issue.id)
          /\ issueCache' = Append(issueCache, tasks'[i].issue)
          /\ \A j \in 1..Len(tasks) : j # i => tasks'[j] = tasks[j]
          /\ Len(tasks') = Len(tasks)]_vars
  /\ [](\A i \in TaskIds :
          /\ LineNotFound(i) => tasks[i].pc = "done"
          /\ (tasks[i].kind = "updateMilestoneCommand" /\ tasks[i].outcome = "rejected")
               => \E j \in Awaited(i) : tasks[j].pc = "failed" /\ ~LineNotFound(j)
          /\ LineNotFound(i) =>
               \A j \in Awaited(tasks[i].ev) :
                 (tasks[j].pc \in {"fetchIssue", "createIssue", "linkIssue", "setIdRead",
                                   "hideIssue", "updateIssue", "fetchIssueById",
                                   "updateTitle"}) => CanStep(j))

\* an Update Milestone command that returned although one of its added
\* issues found no line, the issue being in the entity cache
C17_Witness ==
  \E c \in TaskIds :
    /\ tasks[c].kind = "updateMilestoneCommand" /\ tasks[c].outcome = "updated"
    /\ \E i \in Awaited(c) :
         /\ LineNotFound(i)
         /\ \E k \in 1..Len(issueCache) : issueCache[k] = tasks[i].issue
    /\ \E j \in Awaited(c) : tasks[j].kind = "syncTitle" /\ tasks[j].pc = "done"

\* onChanged's await Promise.all([...]) of the apply step: the result the
\* handler returns to its caller
ApplyKinds == {"handleNewIssue", "hideIssue", "updateIssue", "handleNewMilestone",
               "updateMilestone", "handleNewProject", "updateProject"}
onChangedResult(e) ==
  IF tasks[e].outcome = "applied"
    THEN PromiseAll(tasks, SelectSeq([k \in 1..Len(tasks) |-> k],
                      LAMBDA k : tasks[k].ev = e /\ tasks[k].kind \in ApplyKinds))
  ELSE IF tasks[e].pc = "failed" THEN "rejected"
  ELSE IF tasks[e].pc = "done" THEN "fulfilled" ELSE "pending"

\* an invocation whose repository call failed
RepoFailed(i) ==
  /\ tasks[i].pc = "failed" /\ tasks[i].outcome = "rejected"
  /\ tasks[i].calls # <<>> /\ ~tasks[i].calls[Len(tasks[i].calls)].found
\* the calls of the event or command e that equal call c
SameCalls(e, c) ==
  {<<j, k>> \in TaskIds \X (1..MaxTasks) :
     /\ tasks[j].ev = e /\ k <= Len(tasks[j].calls)
     /\ tasks[j].calls[k].method = c.method /\ tasks[j].calls[k].id = c.id}
\* the step leaves the repository, the note and the caches as they are
NothingUndone ==
  UNCHANGED <<vault, noteCache, issueCache, remoteIssues, remoteMilestones,
              remoteProjects>>

\* C18: when a repository call of an operation fails, the change event
\* returns a rejection to its caller and a command that awaits the operation
\* never returns normally; the failed call was made once and a failed
\* invocation never acts again; and neither the failing step nor the step
\* that rejects the command changes the repository, the note or the caches
C18_RemoteFailurePropagates ==
  /\ [](\A i \in TaskIds : RepoFailed(i) =>
          LET e == tasks[i].ev
              c == tasks[i].calls[Len(tasks[i].calls)]
          IN /\ tasks[e].kind = "onChanged" /\ tasks[i].kind \in ApplyKinds
                  => onChangedResult(e) = "rejected"
             /\ tasks[e].kind \in Commands => tasks[e].pc # "done"
             /\ Cardinality(SameCalls(e, c)) = 1)
  /\ [][\A i \in 1..MaxTasks : i <= Len(tasks) =>
          /\ tasks[i].pc = "failed" => tasks'[i] = tasks[i]
          /\ (tasks[i].pc # "failed" /\ tasks'[i].pc = "failed"
                /\ tasks'[i].outcome = "rejected")
               => /\ NothingUndone
                  /\ \A j \in 1..Len(tasks) : j # i => tasks'[j] = tasks[j]]_vars

\* a rejected Update Milestone command: fetchIssueById of one issue failed
\* and the title update of its sibling stays in the repository
C18_Witness ==
  \E c \in TaskIds :
    /\ tasks[c].kind = "updateMilestoneCommand"
    /\ tasks[c].pc = "failed" /\ tasks[c].outcome = "rejected"
    /\ \E i \in Awaited(c) : RepoFailed(i)
    /\ \E j \in Awaited(c) :
         /\ tasks[j].kind = "syncTitle" /\ tasks[j].outcome = "updated"
         /\ \E k \in 1..Len(remoteIssues) :
              remoteIssues[k].id = Str(tasks[j].issue.id)
              /\ remoteIssues[k].title = tasks[j].issue.title

\* C19: with an empty access token no repository method is ever invoked, a
\* change event never reaches its apply step, and every command has ended
\* with an error
C19_NoTokenNoRemote ==
  ~accessToken =>
    \A i \in TaskIds :
      /\ tasks[i].calls = <<>>
      /\ tasks[i].kind = "onChanged" => tasks[i].outcome # "applied"
      /\ tasks[i].kind \in Commands => tasks[i].pc = "failed"

\* the Update Milestone command i takes a step before it has read the issues
EarlyStep(i) ==
  /\ i <= Len(tasks') /\ tasks'[i].kind = "updateMilestoneCommand"
  /\ (i > Len(tasks) \/ (tasks[i].pc \in {"issueRepo", "trackedId"}
                         /\ tasks'[i] # tasks[i]))
NoTrackedId(i) ==
  tasks[i].kind = "updateMilestoneCommand"
  /\ tasks[i].outcome = "no milestone ID found in note"

\* C20: the Update Milestone command on a note without a tracked id ends with
\* an error in the step that reads the id; none of its steps up to there
\* changes the note, noteCache, the entity cache or the repository, and it
\* has made no repository call, no write and started no operation
C20_UpdateWithoutIdAborts ==
  /\ [][\A i \in 1..MaxTasks : EarlyStep(i) =>
          /\ UNCHANGED <<vault, noteCache, issueCache, remoteIssues,
                         remoteMilestones, remoteProjects>>
          /\ (i <= Len(tasks) /\ tasks[i].pc = "trackedId"
                /\ ~Truthy(getTrackedId(vault)))
               => /\ tasks'[i].pc = "failed" /\ NoTrackedId(i)'
                  /\ Len(tasks') = Len(tasks)]_vars
  /\ [](\A i \in TaskIds : NoTrackedId(i) =>
          /\ tasks[i].pc = "failed" /\ tasks[i].calls = <<>> /\ tasks[i].writes = 0
          /\ Awaited(i) = {})

\* Update Milestone has failed on a note with a repo and without an id
C20_Witness ==
  \E i \in TaskIds :
    /\ NoTrackedId(i) /\ tasks[i].pc = "failed"
    /\ accessToken /\ getRepo(vault).ok /\ ~Truthy(getTrackedId(vault))

-----------------------------------------------------------------------------
(* Properties of Fetch Issues *)

\* the Fetch Issues command i takes a step before it asks the repository
FetchEarlyStep(i) ==
  /\ i <= Len(tasks') /\ tasks'[i].kind = "fetchIssuesCommand"
  /\ (i > Len(tasks) \/ (tasks[i].pc \in {"issueRepo", "trackedId", "trackedType"}
                         /\ tasks'[i] # tasks[i]))
Unsupported(type) == ~Truthy(type) \/ type \notin {TypeMilestone, TypeProject}
FetchRefused(t) ==
  t.kind = "fetchIssuesCommand"
  /\ t.outcome \in {"no tracked ID found in note", "no type set", "unknown type set"}

RECURSIVE parseIntFrom(_, _)
parseIntFrom(s, n) ==
  IF s = <<>> \/ Head(s) \notin Digits THEN n
  ELSE parseIntFrom(Tail(s),
                    10 * n + (CHOOSE d \in 0..9 : NumberToString(d) = <<Head(s)>>))
compareIds(a, b) == parseIntFrom(a, 0) - parseIntFrom(b, 0)

\* the list a Fetch Issues command renders, once the repository has answered
Rendered(i) ==
  IF tasks[i].kind = "fetchIssuesCommand"
       /\ (tasks[i].pc \in {"sectionRead", "sectionWrite"} \/ tasks[i].outcome = "fetched")
    THEN tasks[i].fetched ELSE <<>>
StatusText(i) == IF i.status = "undefined" THEN "open" ELSE i.status

\* C22: in the list Fetch Issues renders no closed issue stands before an
\* open one, and of two issues of equal status the one that stands first has
\* the id that compareIds puts first
C22_FetchedOrder ==
  \A i \in TaskIds :
    \A k, l \in 1..Len(Rendered(i)) :
      k < l =>
        LET a == Rendered(i)[k]
            b == Rendered(i)[l]
        IN /\ ~(StatusText(a) = "closed" /\ StatusText(b) = "open")
           /\ StatusText(a) = StatusText(b) => compareIds(a.id, b.id) <= 0

\* the only writes so far are those of Fetch Issues, so that every change
\* event caused by a write of the plugin is caused by writeSection
OnlyFetchWrites ==
  \A j \in TaskIds : tasks[j].writes > 0 => tasks[j].kind = "fetchIssuesCommand"

\* C23: the step of Fetch Issues that ends with the start of writeSection
\* leaves no noteCache entry for the note, and the change event caused by the
\* write of the section ends as a first observation: no invocation of it
\* makes a repository call
C23_FetchWriteNotRediffed ==
  /\ [][\A i \in 1..MaxTasks :
          (i <= Len(tasks) /\ tasks[i].kind = "fetchIssuesCommand"
             /\ tasks[i].pc # "sectionRead" /\ tasks'[i].pc = "sectionRead")
            => ~HasPrev(noteCache', path)]_vars
  /\ [](OnlyFetchWrites =>
         \A e \in Events : tasks[e].origin = "self" =>
           /\ Finished(tasks[e]) => tasks[e].outcome = "first"
           /\ \A i \in OfEvent(e) : tasks[i].calls = <<>>)

-----------------------------------------------------------------------------
(* Two notes: the note of the run and another note that is opened and saved *)

OtherPath == <<"m", ".", "m", "d">>
\* the texts the other note may hold when it is read
OtherTexts == { <<Dashes, LineRepo, Dashes, LineHead>>,
                <<Dashes, LineRepo, Dashes, LineHeadEdited>> }
FileOf(t) == IF t.kind \in {"onOpenedOther", "onChangedOther"} THEN OtherPath ELSE path
ContentOf(t) == IF FileOf(t) = path THEN {vault} ELSE OtherTexts

\* workspace.on("file-open"): the user opens note q, which becomes the
\* active note; onOpened returns at once for a file that is no .md file
OpenNote(q) ==
  /\ edits < MaxEdits
  /\ tasks' = IF EndsWith(q, MdExt)
                THEN Append(tasks, Task(IF q = path THEN "onOpened" ELSE "onOpenedOther",
                                        "content", Len(tasks) + 1, "open"))
                ELSE tasks
  /\ Len(tasks') <= TaskBound
  /\ edits' = edits + 1
  /\ UNCHANGED <<path, vault, noteCache, issueCache, remoteIssues, remoteMilestones,
                 remoteProjects, autoSync, accessToken, scenario>>

\* onOpened: this.noteCache = { [note.filePath]: await note.content }
OnOpenedContent(i) ==
  LET t == tasks[i]
  IN /\ t.kind \in {"onOpened", "onOpenedOther"} /\ t.pc = "content"
     /\ \E content \in ContentOf(t) :
          /\ noteCache' = onOpened(FileOf(t), content).noteCache
          /\ tasks' = [tasks EXCEPT ![i] = [t EXCEPT !.pc = "getIssues", !.text = content]]
     /\ UNCHANGED <<path, vault, issueCache, remoteIssues, remoteMilestones,
                    remoteProjects, autoSync, accessToken, scenario, edits>>

\* onOpened: this.issueCache.setAll(await note.getIssues())
OnOpenedIssues(i) ==
  LET t == tasks[i]
  IN /\ t.kind \in {"onOpened", "onOpenedOther"} /\ t.pc = "getIssues"
     /\ \E content \in ContentOf(t) :
          issueCache' = onOpened(FileOf(t), content).issueCache
     /\ tasks' = [tasks EXCEPT ![i] = Done(t, "opened")]
     /\ UNCHANGED <<path, vault, noteCache, remoteIssues, remoteMilestones,
                    remoteProjects, autoSync, accessToken, scenario, edits>>

\* vault.on("modify") of the other note: the user has saved it
SaveOther ==
  /\ edits < MaxEdits
  /\ tasks' = IF PassesGuard(autoSync, OtherPath)
                THEN Append(tasks, Task("onChangedOther", "read", Len(tasks) + 1, "user"))
                ELSE tasks
  /\ Len(tasks') <= TaskBound
  /\ edits' = edits + 1
  /\ UNCHANGED <<path, vault, noteCache, issueCache, remoteIssues, remoteMilestones,
                 remoteProjects, autoSync, accessToken, scenario>>

\* onChanged of the other note, lines 179-215: the text is read and diffed
\* against noteCache[file.path]
OnChangedOtherRead(i) ==
  LET t == tasks[i]
      name == FileName(OtherPath)
  IN /\ t.kind = "onChangedOther" /\ t.pc = "read"
     /\ \E content \in OtherTexts :
          LET prev == noteCache[OtherPath]
              iDiff == issuesDiff(getIssues(prev, name), getIssues(content, name))
              mDiff == milestoneDiff(getTrackedMilestone(prev, name),
                                     getTrackedMilestone(content, name))
              pDiff == projectDiff(getTrackedProject(prev, name),
                                   getTrackedProject(content, name))
          IN IF ~HasPrev(noteCache, OtherPath)
               THEN /\ noteCache' = FirstObservation(noteCache, OtherPath, content)
                    /\ tasks' = [tasks EXCEPT ![i] = Done([t EXCEPT !.text = content], "first")]
               ELSE /\ ~RepoMissing(Properties(content))
                    /\ ~RepoIsPlaceholder(Properties(content))
                    /\ noteCache' = CacheAfterDiff(noteCache, OtherPath, content,
                                                   iDiff, mDiff, pDiff)
                    /\ tasks' = [tasks EXCEPT ![i] =
                                   [t EXCEPT !.pc = "repo", !.text = content, !.prev = prev,
                                             !.issueDiff = iDiff, !.milestoneDiff = mDiff,
                                             !.projectDiff = pDiff]]
     /\ UNCHANGED <<path, vault, issueCache, remoteIssues, remoteMilestones,
                    remoteProjects, autoSync, accessToken, scenario, edits>>

\* onChanged of the other note, lines 217-245: its texts hold no entity, so
\* the apply step starts nothing
OnChangedOtherApply(i) ==
  LET t == tasks[i]
  IN /\ t.kind = "onChangedOther" /\ t.pc = "repo"
     /\ ApplyTasks(t) = <<>>
     /\ tasks' = [tasks EXCEPT ![i] =
                    IF accessToken THEN Done(t, "applied")
                    ELSE Failed(t, "no access token")]
     /\ UNCHANGED <<path, vault, noteCache, issueCache, remoteIssues,
                    remoteMilestones, remoteProjects, autoSync, accessToken,
                    scenario, edits>>

NoteRuns == {"close", "first"}

InitNotes ==
  /\ scenario \in NoteRuns
  /\ path = MainPath
  /\ autoSync \in BOOLEAN
  /\ accessToken \in BOOLEAN
  /\ vault = ScenarioOf(scenario).base
  /\ noteCache = InitialNoteCache(scenario, path)
  /\ issueCache = InitialIssueCache(scenario, path)
  /\ remoteIssues = ScenarioOf(scenario).issues
  /\ remoteMilestones = ScenarioOf(scenario).milestones
  /\ remoteProjects = ScenarioOf(scenario).projects
  /\ tasks = <<>>
  /\ edits = 0

NextNotes ==
  \/ \E text \in Saves : UserEdit(text)
  \/ \E q \in {path, OtherPath, PathText} : OpenNote(q)
  \/ SaveOther
  \/ \E i \in 1..Len(tasks) : OnOpenedContent(i)
  \/ \E i \in 1..Len(tasks) : OnOpenedIssues(i)
  \/ \E i \in 1..Len(tasks) : OnChangedOtherRead(i)
  \/ \E i \in 1..Len(tasks) : OnChangedOtherApply(i)
  \/ \E i \in 1..Len(tasks) : OnChangedRead(i)
  \/ \E i \in 1..Len(tasks) : OnChangedApply(i)
  \/ \E i \in 1..Len(tasks) : FetchIssueByTitle(i)
  \/ \E i \in 1..Len(tasks) : CreateIssue(i)
  \/ \E i \in 1..Len(tasks) : SetIdRead(i)
  \/ \E i \in 1..Len(tasks) : SetIdWrite(i)
  \/ \E i \in 1..Len(tasks) : UpdateIssue(i)

SpecNotes == InitNotes /\ [][NextNotes]_vars

\* the step belongs to the handling of the note of the run: its change
\* event, or its own opening
OwnStep ==
  \E i \in 1..Len(tasks) :
    tasks[i].kind \in {"onChanged", "onOpened"} /\ tasks'[i] # tasks[i]

\* C24: a step that removes or replaces the noteCache entry of the note is a
\* step of the handling of that note; opening or saving the other note
\* leaves the entry as it is
C24_NoteCacheFrame ==
  [][(HasEntry(noteCache, path)
        /\ (~HasEntry(noteCache', path) \/ noteCache'[path] # noteCache[path]))
       => OwnStep]_vars

-----------------------------------------------------------------------------
(* The writing methods of the note, each applied to a text of the vault *)

LineNotes == <<"#", "#", " ", "N", "o", "t", "e", "s">>
LineBulletA == <<"-", " ", "A">>
LineNoIdA == <<"-", " ", "[", " ", "]", " ", "A">>
LineNoIdAClosed == <<"-", " ", "[", "x", "]", " ", "A">>
HeadingNotes == <<"N", "o", "t", "e", "s">>

\* the notes the methods are applied to: with and without front matter, with
\* and without the Issues heading, with a section behind the Issues section,
\* with a bullet of the title in an earlier section, with trailing newlines
TextNotes ==
  { <<Dashes, LineRepo, Dashes, LineHead, LineIssues, LineNoIdA>>,
    <<Dashes, LineRepo, Dashes, LineHead, LineIssues, LineNoIdA, LineNotes, LineB>>,
    <<LineHead, LineIssues, LineNoIdAClosed, LineD>>,
    <<Dashes, LineRepo, LineId, Dashes, LineHead, <<>>, <<>>>>,
    <<Dashes, LineRepo, Dashes, LineNotes, LineBulletA, LineIssues, LineNoIdA>>,
    <<LineIssues, LineBulletA, LineDesc>> }

TextIssue(id, title, status, description) ==
  [NoIssue EXCEPT !.id = id, !.title = title, !.status = status,
                  !.description = description]
\* the issue lists that are rendered: plain ones, one without an id, one
\* whose id is not alphanumeric, one whose title holds parentheses, one with
\* a description of two lines
TextIssueLists ==
  { <<>>,
    <<TextIssue(<<"1">>, <<"A">>, "open", UNDEF)>>,
    <<TextIssue(<<"2">>, <<"B">>, "closed", <<"d", "e">>),
      TextIssue(<<"1">>, <<"A">>, "open", UNDEF)>>,
    <<TextIssue(UNDEF, <<"C">>, "open", UNDEF)>>,
    <<TextIssue(<<"a", "-", "1">>, <<"D">>, "open", UNDEF)>>,
    <<TextIssue(<<"3">>, <<"E", " ", "(", "f", ")">>, "closed", UNDEF)>>,
    <<TextIssue(<<"4">>, <<"F">>, "open", <<"d", "e", NL, "f", "g">>)>> }

TextHeadings == {SECTION_HEADING_ISSUES, HeadingNotes}
TextHeads == {<<"H", "e">>, <<"H", "e", NL>>, <<>>}
TextProps == { <<[k |-> PROPERTY_ID, v |-> <<"8">>]>>,
               <<[k |-> PROPERTY_TYPE, v |-> TypeMilestone]>> }
TextTitles == {<<"A">>, <<"B">>}
TextIds == {<<"7">>, <<"4", "2">>}

\* the number of method calls of a run
MaxTextOps == 2

TextOp(kind) == Task(kind, "run", Len(tasks) + 1, "command")
TextStep(t) ==
  /\ tasks' = Append(tasks, t)
  /\ vault' = IF t.pc = "done" THEN t.text ELSE vault
  /\ edits' = edits + 1
  /\ UNCHANGED <<path, noteCache, issueCache, remoteIssues, remoteMilestones,
                 remoteProjects, autoSync, accessToken, scenario>>

\* note.writeSection(heading, md) with the markdown of a list of issues, as
\* fetchIssues calls it
TextWriteSection(heading, issues) ==
  LET md == IssuesMarkdown(issues)
  IN /\ edits < MaxTextOps
     /\ TextStep(Done([TextOp("writeSection") EXCEPT
                         !.prev = vault, !.text2 = heading, !.text3 = md,
                         !.fetched = issues,
                         !.text = writeSection(vault, heading, md)], "written"))

\* note.setHeadSection(content)
TextSetHeadSection(content) ==
  /\ edits < MaxTextOps
  /\ TextStep(Done([TextOp("setHeadSection") EXCEPT
                      !.prev = vault, !.text3 = content,
                      !.text = setHeadSection(vault, content)], "written"))

\* note.setProperties(newProps)
TextSetProperties(newProps) ==
  /\ edits < MaxTextOps
  /\ TextStep(Done([TextOp("setProperties") EXCEPT
                      !.prev = vault, !.props = newProps,
                      !.text = setProperties(vault, vault, vault, newProps)],
                   "written"))

\* note.setIdOnIssue(title, id): replaceLine throws when no line matches
TextSetIdOnIssue(title, id) ==
  LET r == setIdOnIssue(vault, title, id)
      t == [TextOp("setIdOnIssue") EXCEPT
              !.prev = vault, !.issue = [NoIssue EXCEPT !.title = title, !.id = id],
              !.text = r.text]
  IN /\ edits < MaxTextOps
     /\ TextStep(IF r.found THEN Done(t, "written") ELSE Failed(t, "line not found"))

InitText ==
  /\ scenario = "text"
  /\ path = MainPath
  /\ autoSync = TRUE
  /\ accessToken = TRUE
  /\ vault \in TextNotes
  /\ noteCache = EmptyCache
  /\ issueCache = <<>>
  /\ remoteIssues = <<>>
  /\ remoteMilestones = <<>>
  /\ remoteProjects = <<>>
  /\ tasks = <<>>
  /\ edits = 0

NextText ==
  \/ \E heading \in TextHeadings, issues \in TextIssueLists :
       TextWriteSection(heading, issues)
  \/ \E content \in TextHeads : TextSetHeadSection(content)
  \/ \E newProps \in TextProps : TextSetProperties(newProps)
  \/ \E title \in TextTitles, id \in TextIds : TextSetIdOnIssue(title, id)

SpecText == InitText /\ [][NextText]_vars

-----------------------------------------------------------------------------
(* Properties of the writing methods *)

OpsOf(kind) == {i \in 1..Len(tasks) : tasks[i].kind = kind /\ tasks[i].pc = "done"}
IsSuffix(s, t) == Len(s) <= Len(t) /\ Drop(t, Len(t) - Len(s)) = s
IsPrefix(s, t) == Len(s) <= Len(t) /\ Take(t, Len(s)) = s

\* the first line at or after from that starts with '#'; 0 when none
RECURSIVE FirstHashLine(_, _)
FirstHashLine(ls, from) ==
  IF from > Len(ls) THEN 0
  ELSE IF ls[from] # <<>> /\ ls[from][1] = "#" THEN from
  ELSE FirstHashLine(ls, from + 1)

\* C25: writeSection on a text with the heading keeps the text up to the
\* heading line, puts the content behind it, and keeps the text from the
\* next line starting with '#' onward; on a text without the heading it
\* keeps the text without its trailing newlines and appends heading and
\* content
C25_WriteSectionFrame ==
  \A i \in OpsOf("writeSection") :
    LET t == tasks[i]
        h == SectionHeading(t.prev, t.text2, 1)
        e == FirstHashLine(t.prev, h + 1)
        kept == StripNewlines(t.prev)
    IN IF h # 0
         THEN /\ Take(t.text, h) = Take(t.prev, h)
              /\ SubSeq(t.text, h + 2, h + 1 + Len(t.text3)) = t.text3
              /\ e # 0 => IsSuffix(Drop(t.prev, e - 1), Drop(t.text, h))
         ELSE /\ Take(t.text, Len(kept)) = kept
              /\ Drop(t.text, Len(kept))
                   = <<<<>>, <<"#", "#", " ">> \o t.text2, <<>>>> \o t.text3

\* C26: setHeadSection keeps the front-matter block and the text from the
\* first heading line onward, that heading still starting a line, and the
\* head section of the written text is the trimmed content
C26_SetHeadSectionFrame ==
  \A i \in OpsOf("setHeadSection") :
    LET t == tasks[i]
        c == FrontMatterClose(t.prev)
        h == FirstHeading(t.prev, 1)
    IN /\ c # 0 => IsPrefix(Take(t.prev, c), t.text)
       /\ h # 0 => IsSuffix(Drop(t.prev, h - 1), t.text)
       /\ getHeadSection(t.text) = Trim(t.text3)

\* the text behind the line that closes the front matter
BodyOf(text) == Join(Drop(text, FrontMatterClose(text)))

\* C27: after setProperties({k: v}) on a text with a front-matter block the
\* property k reads v, every other property reads what it read before, and
\* the body behind the front-matter block is the same string
C27_SetPropertiesRoundTrip ==
  \A i \in OpsOf("setProperties") :
    LET t == tasks[i]
        old == Properties(t.prev)
    IN FrontMatterClose(t.prev) # 0 =>
         /\ \A n \in 1..Len(t.props) : Property(t.text, t.props[n].k) = t.props[n].v
         /\ \A n \in 1..Len(old) :
              (\A m \in 1..Len(t.props) : t.props[m].k # old[n].k)
                => Property(t.text, old[n].k) = old[n].v
         /\ BodyOf(t.text) = BodyOf(t.prev)

\* the fields of an issue that the grammar of the issue list holds
CoreOf(issues) ==
  [n \in 1..Len(issues) |->
     [id |-> issues[n].id, title |-> issues[n].title, status |-> issues[n].status,
      description |-> issues[n].description]]

\* C28: the issues parsed from an Issues section that was written from the
\* rendering of a list of issues are that list
C28_RenderParseRoundTrip ==
  \A i \in OpsOf("writeSection") :
    LET t == tasks[i]
    IN t.text2 = SECTION_HEADING_ISSUES
         => CoreOf(getIssues(t.text, FileName(path))) = CoreOf(t.fetched)

\* the lines of the Issues section of a text
IssuesLines(text) ==
  LET h == FirstHeadingOf(text, SECTION_HEADING_ISSUES, 1)
      e == FirstHeading(text, h + 1)
  IN IF h = 0 THEN {} ELSE h + 1..(IF e = 0 THEN Len(text) ELSE e - 1)

\* C29: setIdOnIssue(title, id) on a note whose Issues section holds an
\* id-less issue of the title appends " (id)" to that issue's line and
\* leaves every other line; the note then parses to the same issues, that
\* one with the id
C29_SetIdOnIssue ==
  \A i \in 1..Len(tasks) :
    LET t == tasks[i]
        name == FileName(path)
        before == getIssues(t.prev, name)
        after == getIssues(t.text, name)
        held == \E j \in 1..Len(before) :
                  before[j].id = UNDEF /\ before[j].title = t.issue.title
    IN (t.kind = "setIdOnIssue" /\ held) =>
         /\ t.pc = "done"
         /\ Len(t.text) = Len(t.prev)
         /\ \E n \in IssuesLines(t.prev) :
              /\ IssueOfLine(t.prev[n]).id = UNDEF
              /\ IssueOfLine(t.prev[n]).title = t.issue.title
              /\ t.text[n] = t.prev[n] \o <<" ", "(">> \o t.issue.id \o <<")">>
              /\ \A m \in 1..Len(t.prev) : m # n => t.text[m] = t.prev[m]
         /\ Len(after) = Len(before)
         /\ \E j \in 1..Len(before) :
              /\ before[j].id = UNDEF /\ before[j].title = t.issue.title
              /\ after = [before EXCEPT ![j] = [@ EXCEPT !.id = t.issue.id]]

\* the rendering of an issue as specified: the id segment only with an id
ListItemOf(i) ==
  Split(<<"-", " ", "[">> \o (IF i.status = "closed" THEN <<"x">> ELSE <<" ">>)
        \o <<"]", " ">> \o i.title
        \o (IF i.id = UNDEF THEN <<>> ELSE <<" ", "(">> \o i.id \o <<")">>)
        \o (IF i.description = UNDEF THEN <<>>
            ELSE <<NL, "\t", "-", " ">> \o i.description))
RECURSIVE ListItemsOf(_)
ListItemsOf(issues) ==
  IF issues = <<>> THEN <<>> ELSE ListItemOf(issues[1]) \o ListItemsOf(Tail(issues))

\* C30: the markdown written for a list of issues is, for each issue, its
\* checkbox and title, " (id)" when it has an id, and an indented
\* "- description" line when it has a description
C30_ToListItem ==
  \A i \in OpsOf("writeSection") :
    tasks[i].fetched # <<>> => tasks[i].text3 = ListItemsOf(tasks[i].fetched)

-----------------------------------------------------------------------------
(* Properties of the repo property *)

\* the parts of a value of the form org/repo, before and behind its first "/"
OrgOf(v) == Take(Str(v), IndexOf(Str(v), <<"/">>, 0))
RepoOf(v) == Drop(Str(v), IndexOf(Str(v), <<"/">>, 0) + 1)
ReadsPlaceholder(e) ==
  /\ tasks[e].pc # "read"
  /\ Property(tasks[e].text, PROPERTY_REPO) = REPO_PLACEHOLDER

-----------------------------------------------------------------------------
(* getIssues applied to Issues sections with description lines *)

LineDescTab == <<"\t", "-", " ", "f", "g">>
LineIndented == <<" ", " ", "h", "i">>
LineText == <<"x", "y">>
\* the lines that follow the first issue line
ParseLines == {LineC, LineDesc, LineDescTab, LineIndented, LineText, <<>>}
\* the number of lines that follow the first issue line
MaxTail == 3
ParseTails == UNION {[1..n -> ParseLines] : n \in 1..MaxTail}
ParseNotes == {<<LineIssues, LineB>> \o tail : tail \in ParseTails}

InitParse ==
  /\ scenario = "parse"
  /\ path = MainPath
  /\ autoSync = TRUE
  /\ accessToken = TRUE
  /\ vault \in ParseNotes
  /\ noteCache = EmptyCache
  /\ issueCache = <<>>
  /\ remoteIssues = <<>>
  /\ remoteMilestones = <<>>
  /\ remoteProjects = <<>>
  /\ tasks = <<>>
  /\ edits = 0

\* note.getIssues()
ParseIssues ==
  /\ tasks = <<>>
  /\ tasks' = <<[Done(Task("getIssues", "content", 1, "command"), "parsed") EXCEPT
                   !.prev = vault,
                   !.fetched = getIssues(vault, FileName(path))]>>
  /\ UNCHANGED <<path, vault, noteCache, issueCache, remoteIssues,
                 remoteMilestones, remoteProjects, autoSync, accessToken,
                 scenario, edits>>

NextParse == ParseIssues

SpecParse == InitParse /\ [][NextParse]_vars

-----------------------------------------------------------------------------
(* Properties of the description lines *)

\* the parser as a machine over the lines with the states "outside",
\* "issue" (behind an issue line, no description yet) and "description":
\* the first indented bullet behind an issue line sets the description,
\* later blank or indented lines are appended to it, and a line that is
\* neither indented nor blank nor an issue line ends a description and
\* changes nothing else
RECURSIVE DescriptionMachine(_, _, _)
DescriptionMachine(lines, issues, state) ==
  IF lines = <<>> THEN issues
  ELSE LET line == lines[1]
           rest == Tail(lines)
       IN IF IsIssueLine(line)
            THEN DescriptionMachine(rest, Append(issues, IssueOfLine(line)), "issue")
          ELSE IF state = "issue" /\ IsDescLine(line)
            THEN DescriptionMachine(rest, SetLast(issues, DescOf(line)), "description")
          ELSE IF state = "description" /\ (line = <<>> \/ IsWs(line[1]))
            THEN DescriptionMachine(
                   rest,
                   SetLast(issues, issues[Len(issues)].description \o <<NL>> \o LTrim(line)),
                   "description")
          ELSE IF line = <<>> \/ IsWs(line[1])
            THEN DescriptionMachine(rest, issues, state)
          ELSE DescriptionMachine(rest, issues,
                                  IF state = "description" THEN "outside" ELSE state)

TrimmedDescriptions(issues) ==
  [n \in 1..Len(issues) |->
     [issues[n] EXCEPT !.description = IF @ = UNDEF THEN UNDEF ELSE Trim(@)]]

\* C32: the issues parsed from a note are those of the machine over the
\* lines of its Issues section, their descriptions trimmed
C32_DescriptionParsing ==
  \A i \in 1..Len(tasks) :
    tasks[i].kind = "getIssues" =>
      CoreOf(tasks[i].fetched)
        = CoreOf(TrimmedDescriptions(
                   DescriptionMachine(Split(getSection(tasks[i].prev, SECTION_HEADING_ISSUES)),
                                      <<>>, "outside")))

-----------------------------------------------------------------------------
(* Properties of the ids handed to the repository *)

\* C33: every hideIssue and every updateIssue call carries a non-empty id
C33_CallsCarryId ==
  \A i \in TaskIds : \A k \in 1..Len(tasks[i].calls) :
    tasks[i].calls[k].method \in {"hideIssue", "updateIssue"}
      => Truthy(tasks[i].calls[k].id)

-----------------------------------------------------------------------------
(* One user save, followed until nothing is in flight *)

InitQuiesce ==
  /\ scenario \in QuiesceRuns
  /\ path = MainPath
  /\ autoSync = TRUE
  /\ accessToken = TRUE
  /\ vault = ScenarioOf(scenario).base
  /\ noteCache = InitialNoteCache(scenario, path)
  /\ issueCache = InitialIssueCache(scenario, path)
  /\ remoteIssues = ScenarioOf(scenario).issues
  /\ remoteMilestones = ScenarioOf(scenario).milestones
  /\ remoteProjects = ScenarioOf(scenario).projects
  /\ tasks = <<>>
  /\ edits = 0

\* the one save of the user
SingleEdit ==
  /\ edits = 0
  /\ \E text \in ScenarioOf(scenario).saves : UserEdit(text)

\* the continuations of the handlers, which the event loop runs when their
\* awaited read, write or repository call has answered
Continuations ==
  \/ \E i \in 1..Len(tasks) : OnChangedRead(i)
  \/ \E i \in 1..Len(tasks) : OnChangedApply(i)
  \/ \E i \in 1..Len(tasks) : FetchIssueByTitle(i)
  \/ \E i \in 1..Len(tasks) : CreateIssue(i)
  \/ \E i \in 1..Len(tasks) : LinkIssue(i)
  \/ \E i \in 1..Len(tasks) : SetIdRead(i)
  \/ \E i \in 1..Len(tasks) : SetIdWrite(i)
  \/ \E i \in 1..Len(tasks) : HideIssue(i)
  \/ \E i \in 1..Len(tasks) : UpdateIssue(i)
  \/ \E i \in 1..Len(tasks) : FetchProjectByTitle(i)
  \/ \E i \in 1..Len(tasks) : CreateProject(i)
  \/ \E i \in 1..Len(tasks) : UpdateProject(i)
  \/ \E i \in 1..Len(tasks) : SetPropertiesRead(i)
  \/ \E i \in 1..Len(tasks) : SetPropertiesWrite(i)
  \/ \E i \in 1..Len(tasks) : SetHeadSectionRead(i)
  \/ \E i \in 1..Len(tasks) : SetHeadSectionWrite(i)

NextQuiesce == SingleEdit \/ Continuations

SpecQuiesce == InitQuiesce /\ [][NextQuiesce]_vars

-----------------------------------------------------------------------------
(* Properties of quiescence *)

Quiescent == \A i \in TaskIds : Finished(tasks[i])

-----------------------------------------------------------------------------
(* Properties of the edits of the user that reach the repository *)

\* the issues with an id that the note shows otherwise than it did when it
\* was opened, paired with what they were
EditedIssues ==
  ChangedIssues(getIssues(ScenarioOf(scenario).base, path), getIssues(vault, path))

\* updateIssue has been called for this issue, with its title
Pushed(issue) ==
  \E i \in TaskIds : \E k \in 1..Len(tasks[i].calls) :
    /\ tasks[i].calls[k].method = "updateIssue"
    /\ tasks[i].calls[k].id = issue.id
    /\ tasks[i].calls[k].title = issue.title

\* the note was opened and is synchronised, and nothing is in flight
AtRest ==
  /\ autoSync /\ accessToken /\ path = MainPath
  /\ ScenarioOf(scenario).cached
  /\ Quiescent

\* C35: when nothing is in flight any more, updateIssue has been called for
\* every issue with an id that the user left changed in the note
C35_NoEditLost ==
  AtRest => \A k \in 1..Len(EditedIssues) : Pushed(EditedIssues[k].after)

-----------------------------------------------------------------------------
(* Properties of the change event whose apply step fails *)

\* C36: when the apply step of a change event fails, the noteCache entry of
\* the note is the text the event found there when it started
C36_FailedApplyKeepsBaseline ==
  [][\A i \in 1..MaxTasks :
       (i <= Len(tasks) /\ tasks[i].kind = "onChanged"
          /\ tasks[i].pc = "repo" /\ tasks'[i].pc = "failed")
         => HasPrev(noteCache', path) /\ noteCache'[path] = tasks[i].prev]_vars

-----------------------------------------------------------------------------
(* Properties of the issue cache as a mapping *)

\* C37: the issue cache holds at most one entry per issue id
C37_OneEntryPerId ==
  \A j \in 1..Len(issueCache) : \A k \in 1..Len(issueCache) :
    (j # k /\ Truthy(issueCache[j].id)) => issueCache[j].id # issueCache[k].id

-----------------------------------------------------------------------------
(* Properties of the Create Milestone command *)

\* the repository holds a milestone titled as the note's tracked name
HoldsTrackedName ==
  IndexByTitle(remoteMilestones, getTrackedName(vault, FileName(path))) # 0

\* the Create Milestone command i makes its createMilestone call in this step
CallsCreateMilestone(i) ==
  /\ i <= Len(tasks) /\ tasks[i].kind = "createMilestoneCommand"
  /\ tasks[i].pc = "createMilestone" /\ tasks'[i].pc # "createMilestone"

\* the Create Milestone command i returns in this step, having adopted a
\* milestone the repository held
ReturnsAdopted(i) ==
  /\ i <= Len(tasks) /\ tasks[i].kind = "createMilestoneCommand"
  /\ tasks[i].pc = "awaitId" /\ tasks'[i].pc = "done"
  /\ "createMilestone" \notin Methods(tasks[i])

\* C38: the command calls createMilestone only on a note without a tracked id
\* and for a name of which the repository holds no milestone, and when it
\* adopts a milestone held it returns with that milestone's id in the note
C38_CreateMilestoneOnlyWhenNew ==
  [][\A i \in 1..MaxTasks :
       /\ CallsCreateMilestone(i) =>
            ~Truthy(getTrackedId(vault)) /\ ~HoldsTrackedName
       /\ ReturnsAdopted(i) => getTrackedId(vault') = tasks[i].entity.id]_vars

-----------------------------------------------------------------------------
(* The methods of IssueCache, applied to caches of up to two issues *)

\* the outcome of a method: the state it leaves and whether it threw
Returned(state) == [state |-> state, thrown |-> FALSE]
Thrown(state) == [state |-> state, thrown |-> TRUE]

\* this.state.find((i) => i.id === id)
get(state, id) ==
  IF CacheIndex(state, id) = 0 THEN <<>> ELSE <<state[CacheIndex(state, id)]>>
add(state, data) == Returned(CacheAdd(state, data))
update(state, data) ==
  IF CacheIndex(state, data.id) = 0 THEN Thrown(state)
  ELSE Returned(CacheUpdate(state, data))
remove(state, id) ==
  IF CacheIndex(state, id) = 0 THEN Thrown(state)
  ELSE Returned(CacheRemove(state, id))
upsertAlwaysAdds(state, data) == add(state, data)
upsert(state, data) ==
  IF get(state, data.id) # <<>> THEN update(state, data) ELSE add(state, data)

\* the issues the methods are called with: two of the id 1, one of the id 2,
\* one without an id
CacheIssues ==
  {IssueOfLine(LineA), IssueOfLine(LineAClosed), IssueOfLine(LineB),
   [IssueOfLine(LineB) EXCEPT !.id = <<"2">>]}
MaxCached == 2
CacheStates ==
  {<<>>} \cup {<<a>> : a \in CacheIssues} \cup {<<a, b>> : a, b \in CacheIssues}
MaxCacheOps == 2

InitCache ==
  /\ scenario = "cache"
  /\ path = MainPath
  /\ autoSync = TRUE
  /\ accessToken = TRUE
  /\ vault = <<>>
  /\ noteCache = EmptyCache
  /\ issueCache \in {s \in CacheStates : Len(s) <= MaxCached}
  /\ remoteIssues = <<>>
  /\ remoteMilestones = <<>>
  /\ remoteProjects = <<>>
  /\ tasks = <<>>
  /\ edits = 0

\* one call of a method with the issue x: the state it leaves, and the
\* invocation with its argument and how it ended
CacheCall(method, x, outcome) ==
  /\ Len(tasks) < MaxCacheOps
  /\ issueCache' = outcome.state
  /\ tasks' = Append(tasks,
       [Done(Task(method, "cache", Len(tasks) + 1, "command"),
             IF outcome.thrown THEN "thrown" ELSE "returned")
          EXCEPT !.issue = x])
  /\ UNCHANGED <<path, vault, noteCache, remoteIssues, remoteMilestones,
                 remoteProjects, autoSync, accessToken, scenario, edits>>

CallAdd == \E x \in CacheIssues : CacheCall("add", x, add(issueCache, x))
CallUpdate == \E x \in CacheIssues : CacheCall("update", x, update(issueCache, x))
CallUpsert == \E x \in CacheIssues : CacheCall("upsert", x, upsert(issueCache, x))
CallRemove == \E x \in CacheIssues : CacheCall("remove", x, remove(issueCache, x.id))

NextCache == CallAdd \/ CallUpdate \/ CallUpsert \/ CallRemove

SpecCache == InitCache /\ [][NextCache]_vars

-----------------------------------------------------------------------------
(* Properties of the methods of IssueCache *)

\* the cache has no entry of the id
NoEntry(state, id) == \A k \in 1..Len(state) : state[k].id # id
\* the first entry of the id
FirstEntry(state, id) ==
  state[CHOOSE k \in 1..Len(state) :
          state[k].id = id /\ \A j \in 1..k - 1 : state[j].id # id]
\* the call made in this step
LastCall == tasks'[Len(tasks')]

\* C39: update and remove for an id without an entry throw and leave the
\* cache as it was; upsert returns, and the first entry of the id is then
\* the issue it was called with
C39_CacheMethods ==
  [][Len(tasks') = Len(tasks) + 1 =>
       /\ (LastCall.kind \in {"update", "remove"}
             /\ NoEntry(issueCache, LastCall.issue.id))
            => LastCall.outcome = "thrown" /\ issueCache' = issueCache
       /\ LastCall.kind = "upsert"
            => /\ LastCall.outcome = "returned"
               /\ ~NoEntry(issueCache', LastCall.issue.id)
               /\ FirstEntry(issueCache', LastCall.issue.id) = LastCall.issue]_vars

\* update and remove have thrown on a missing id, and upsert has replaced an
\* entry by another issue of its id
C39_Witness ==
  /\ Len(tasks) = 2
  /\ tasks[1].kind \in {"update", "remove"} /\ tasks[1].outcome = "thrown"
  /\ tasks[2].kind = "upsert" /\ tasks[2].outcome = "returned"
  /\ Len(issueCache) = 2
  /\ issueCache[1] = IssueOfLine(LineAClosed)
  /\ tasks[2].issue = IssueOfLine(LineAClosed)
====
